---- MODULE Spec2Model ----
(***************************************************************************)
(* Model of pyzenkit/zendaemon.py: the EventQueueManager (a deque of       *)
(* immediate events and a heapq of timed events), the callback registry of *)
(* ZenDaemon and its event loop.                                           *)
(*                                                                         *)
(* Python values are modelled as follows.  An event name is a string; the  *)
(* value None is the string "None"; an args payload is None or a dict,     *)
(* written "p1", "p2" (two dicts are equal iff they are the same string).  *)
(* A queue entry carries one extra field, id, that the program does not    *)
(* have: the number of the scheduling call that created it.  No operator   *)
(* of the program reads it; it only lets the properties tell entries with  *)
(* equal contents apart.                                                   *)
(***************************************************************************)
EXTENDS Integers, Sequences, FiniteSets, TLC

\* ------------------------------------------------------------------ bounds
\* The wall clock runs over 0..MaxTime.
MaxTime == 2
\* At most MaxEntries scheduling calls are made on the queue.
MaxEntries == 3
\* schedule_after is called with a delay in 0..MaxDelay.
MaxDelay == 1
\* The engine is constructed with at most MaxComponents components, and
\* get_events() of a component lists 1..MaxRegs registrations.
MaxComponents == 2
MaxRegs == 1
\* The daemon that receives signals is constructed with at most
\* MaxDaemonComponents components.
MaxDaemonComponents == 1
\* The value of the stats_interval configuration, in seconds.
StatsInterval == 1
\* The engine is constructed with at most MaxInitial initial events.
MaxInitial == 2
\* Registrations made by handlers while the loop runs.
MaxDynRegs == 1
\* Signals delivered to the process.
MaxSignals == 1
\* The run directory holds at most MaxFiles files.
MaxFiles == 2
\* A counter of a component's statistics is raised up to MaxCount.
MaxCount == 2
\* Where the clock is finer than a second it counts TicksPerSecond ticks a
\* second, and the times of the queue are in ticks.
TicksPerSecond == 2

\* ------------------------------------------------------------ Python values
None == "None"

\* Event names used by the queue-level specification, payloads of entries.
QEvents == {"a", "b"}
QArgs == {None, "p1"}

\* Python compares str values lexicographically; these are all the names the
\* model uses, in that order.
StrOrder ==
  <<"", "a", "b", "default", "log_statistics", "nope",
    "signal_hup", "signal_usr1", "signal_usr2">>

StrRank(s) == CHOOSE i \in 1..Len(StrOrder) : StrOrder[i] = s

StrLt(x, y) == StrRank(x) < StrRank(y)

\* (tstamp, event, args) < (tstamp, event, args) as Python evaluates it on
\* tuples: the first differing position decides; equal tuples are not less;
\* when tstamp and event are equal and the args differ, args < args is
\* evaluated, which raises TypeError for None and for dict operands.
TupleLt(x, y) ==
  IF x.tstamp # y.tstamp THEN (IF x.tstamp < y.tstamp THEN "lt" ELSE "ge")
  ELSE IF x.event # y.event THEN (IF StrLt(x.event, y.event) THEN "lt" ELSE "ge")
  ELSE IF x.args # y.args THEN "TypeError"
  ELSE "ge"

\* ------------------------------------------------------------------- heapq
\* heapq works on a list with positions from 0; Sequences count from 1.
Swap(heap, i, j) == [heap EXCEPT ![i + 1] = heap[j + 1], ![j + 1] = heap[i + 1]]

\* _heapq's siftdown: move the item at pos up while it is less than its
\* parent.  A comparison that raises leaves the list as it is at that point.
RECURSIVE siftdown(_, _, _)
siftdown(heap, startpos, pos) ==
  IF pos > startpos
  THEN LET parentpos == (pos - 1) \div 2
           cmp == TupleLt(heap[pos + 1], heap[parentpos + 1])
       IN  IF cmp = "TypeError" THEN [heap |-> heap, exc |-> "TypeError"]
           ELSE IF cmp = "ge" THEN [heap |-> heap, exc |-> "none"]
           ELSE siftdown(Swap(heap, pos, parentpos), startpos, parentpos)
  ELSE [heap |-> heap, exc |-> "none"]

\* The first loop of _heapq's siftup: bubble the smaller child up until a leaf.
RECURSIVE siftup_loop(_, _)
siftup_loop(heap, pos) ==
  LET endpos == Len(heap)
      limit == endpos \div 2
  IN  IF pos < limit
      THEN LET childpos == 2 * pos + 1
               cmp == IF childpos + 1 < endpos
                      THEN TupleLt(heap[childpos + 1], heap[childpos + 2])
                      ELSE "lt"
           IN  IF cmp = "TypeError"
               THEN [heap |-> heap, pos |-> pos, exc |-> "TypeError"]
               ELSE LET child == IF cmp = "lt" THEN childpos ELSE childpos + 1
                    IN  siftup_loop(Swap(heap, child, pos), child)
      ELSE [heap |-> heap, pos |-> pos, exc |-> "none"]

siftup(heap, pos) ==
  LET r == siftup_loop(heap, pos)
  IN  IF r.exc # "none" THEN [heap |-> r.heap, exc |-> r.exc]
      ELSE siftdown(r.heap, pos, r.pos)

\* A heappush that appends and does not sift.
heappush_nosift(heap, item) == [heap |-> Append(heap, item), exc |-> "none"]

\* heapq.heappush: append, then sift the new item towards the root.
heappush(heap, item) == siftdown(Append(heap, item), 0, Len(heap))

\* heapq.heappop: take the last item off, put it at the root, sift it down and
\* return the old root.  When a comparison raises, the old root is in nobody's
\* hands any more: it has left the list and is not returned.
heappop(heap) ==
  LET n == Len(heap)
      lastelt == heap[n]
      rest == SubSeq(heap, 1, n - 1)
  IN  IF n = 1 THEN [heap |-> rest, item |-> lastelt, exc |-> "none"]
      ELSE LET r == siftup([rest EXCEPT ![1] = lastelt], 0)
           IN  [heap |-> r.heap, item |-> heap[1], exc |-> r.exc]

\* ------------------------------------------------------- EventQueueManager
\* self.events = collections.deque(); self.events_at = []
EventQueueManager == [events |-> <<>>, events_at |-> <<>>]

\* schedule that puts the entry at the head.
schedule_lifo(self, event, args, id) ==
  [self EXCEPT !.events = <<[event |-> event, args |-> args, id |-> id]>> \o @]

schedule(self, event, args, id) ==
  [self EXCEPT !.events = Append(@, [event |-> event, args |-> args, id |-> id])]

\* schedule_next that puts the entry at the tail.
schedule_next_tail(self, event, args, id) ==
  [self EXCEPT !.events = Append(@, [event |-> event, args |-> args, id |-> id])]

schedule_next(self, event, args, id) ==
  [self EXCEPT !.events = <<[event |-> event, args |-> args, id |-> id]>> \o @]

\* Returns the queue and the exception raised ("none" when none is).
schedule_at(self, tstamp, event, args, id) ==
  LET r == heappush(self.events_at,
                    [tstamp |-> tstamp, event |-> event, args |-> args, id |-> id])
  IN  [self |-> [self EXCEPT !.events_at = r.heap], exc |-> r.exc]

\* time_time is the value time.time() returns in the call.
schedule_after(self, time_time, delay, event, args, id) ==
  LET tstamp == time_time + delay
      r == heappush(self.events_at,
                    [tstamp |-> tstamp, event |-> event, args |-> args, id |-> id])
  IN  [self |-> [self EXCEPT !.events_at = r.heap], exc |-> r.exc]

\* What next() hands back: (event, args), and the entry's id (0: no entry).
Result(event, args, id) == [event |-> event, args |-> args, id |-> id]

\* A next() that takes the heap root whether it is due or not.
next_nogate(self, time_time) ==
  LET len1 == Len(self.events_at)
      len2 == Len(self.events)
  IN  IF len1 > 0
      THEN LET r == heappop(self.events_at)
           IN  IF r.exc # "none"
               THEN [self |-> [self EXCEPT !.events_at = r.heap],
                     result |-> Result(None, None, 0), exc |-> r.exc]
               ELSE [self |-> [self EXCEPT !.events_at = r.heap],
                     result |-> Result(r.item.event, r.item.args, r.item.id),
                     exc |-> "none"]
      ELSE IF len2 > 0
      THEN [self |-> [self EXCEPT !.events = Tail(@)],
            result |-> Head(self.events), exc |-> "none"]
      ELSE [self |-> self, result |-> Result(None, None, 0),
            exc |-> "QueueEmptyException"]

\* A next() that serves the FIFO before a due heap root.
next_fifo_first(self, time_time) ==
  LET len1 == Len(self.events_at)
      len2 == Len(self.events)
  IN  IF len2 > 0
      THEN [self |-> [self EXCEPT !.events = Tail(@)],
            result |-> Head(self.events), exc |-> "none"]
      ELSE IF len1 > 0 /\ self.events_at[1].tstamp <= time_time
      THEN LET r == heappop(self.events_at)
           IN  IF r.exc # "none"
               THEN [self |-> [self EXCEPT !.events_at = r.heap],
                     result |-> Result(None, None, 0), exc |-> r.exc]
               ELSE [self |-> [self EXCEPT !.events_at = r.heap],
                     result |-> Result(r.item.event, r.item.args, r.item.id),
                     exc |-> "none"]
      ELSE IF len1 + len2 = 0
      THEN [self |-> self, result |-> Result(None, None, 0),
            exc |-> "QueueEmptyException"]
      ELSE [self |-> self, result |-> Result(None, None, 0), exc |-> "none"]

\* next(): the queue afterwards, the tuple returned and the exception raised.
next(self, time_time) ==
  LET len1 == Len(self.events_at)
      len2 == Len(self.events)
  IN  IF len1 > 0 /\ self.events_at[1].tstamp <= time_time
      THEN LET r == heappop(self.events_at)
           IN  IF r.exc # "none"
               THEN [self |-> [self EXCEPT !.events_at = r.heap],
                     result |-> Result(None, None, 0), exc |-> r.exc]
               ELSE [self |-> [self EXCEPT !.events_at = r.heap],
                     result |-> Result(r.item.event, r.item.args, r.item.id),
                     exc |-> "none"]
      ELSE IF len2 > 0
      THEN [self |-> [self EXCEPT !.events = Tail(@)],
            result |-> Head(self.events), exc |-> "none"]
      ELSE IF len1 + len2 = 0
      THEN [self |-> self, result |-> Result(None, None, 0),
            exc |-> "QueueEmptyException"]
      ELSE [self |-> self, result |-> Result(None, None, 0), exc |-> "none"]

\* wait(): 0 when the FIFO is non-empty, else the time to the heap root.
wait(self, time_time) ==
  IF Len(self.events) > 0 THEN 0 ELSE self.events_at[1].tstamp - time_time

count(self) == Len(self.events_at) + Len(self.events)

\* ---------------------------------------------------------------- ZenDaemon
FLAG_CONTINUE == 1
FLAG_STOP == 0

EVENT_SIGNAL_HUP == "signal_hup"
EVENT_SIGNAL_USR1 == "signal_usr1"
EVENT_SIGNAL_USR2 == "signal_usr2"
EVENT_LOG_STATISTICS == "log_statistics"

\* A callback is a bound method: the object it belongs to (0: the daemon
\* itself, c: the c-th component) and the method's name.
Callback(comp, cbk) == [comp |-> comp, cbk |-> cbk]

Registration(event, callback, prepend) ==
  [event |-> event, callback |-> callback, prepend |-> prepend]

\* ZenDaemon.get_events(): the built-in event callbacks.
get_events ==
  << Registration(EVENT_SIGNAL_HUP, Callback(0, "cbk_event_signal_hup"), FALSE),
     Registration(EVENT_SIGNAL_USR1, Callback(0, "cbk_event_signal_usr1"), FALSE),
     Registration(EVENT_SIGNAL_USR2, Callback(0, "cbk_event_signal_usr2"), FALSE),
     Registration(EVENT_LOG_STATISTICS, Callback(0, "cbk_event_log_statistics"), FALSE) >>

\* An _init_event_callback that appends whatever the prepend flag says.
_init_event_callback_append(callbacks, event, callback, prepend) ==
  LET cbs == IF event \notin DOMAIN callbacks
             THEN callbacks @@ (event :> <<>>)
             ELSE callbacks
  IN  [cbs EXCEPT ![event] = Append(@, callback)]

\* An _init_event_callback that only creates the list of an event it sees for
\* the first time.
_init_event_callback_create(callbacks, event, callback, prepend) ==
  IF event \notin DOMAIN callbacks
  THEN callbacks @@ (event :> <<>>)
  ELSE [callbacks EXCEPT ![event] = IF ~prepend THEN Append(@, callback)
                                   ELSE <<callback>> \o @]

\* self.callbacks after _init_event_callback(event, callback, prepend).
_init_event_callback(callbacks, event, callback, prepend) ==
  LET cbs == IF event \notin DOMAIN callbacks
             THEN callbacks @@ (event :> <<>>)
             ELSE callbacks
  IN  [cbs EXCEPT ![event] = IF ~prepend THEN Append(@, callback)
                             ELSE <<callback>> \o @]

\* The for loops of _init_callbacks and _init_components: every registration
\* of the list, in the order of the list.
RECURSIVE _init_event_callbacks(_, _)
_init_event_callbacks(callbacks, elist) ==
  IF elist = <<>> THEN callbacks
  ELSE _init_event_callbacks(
         _init_event_callback(callbacks, Head(elist).event, Head(elist).callback,
                              Head(elist).prepend),
         Tail(elist))

\* The event names components register callbacks for, and what a component's
\* get_events() may return: "default" is known to components alone,
\* "signal_usr1" has a built-in callback.
ComponentEvents == {"default", EVENT_SIGNAL_USR1}

CallbackNames == <<"cbk_event_1", "cbk_event_2", "cbk_event_3">>

ComponentRegistration(comp, k) ==
  { Registration(event, Callback(comp, CallbackNames[k]), prepend) :
      event \in ComponentEvents, prepend \in BOOLEAN }

RECURSIVE component_get_events(_, _)
component_get_events(comp, n) ==
  IF n = 0 THEN {<<>>}
  ELSE { Append(elist, reg) : elist \in component_get_events(comp, n - 1),
                              reg \in ComponentRegistration(comp, n) }

\* The loop variables of _event_loop while an event is dispatched: the event,
\* the current args, the position of the for loop in self.callbacks[event],
\* and whether the for loop was left by break.
Dispatch(event, args) == [event |-> event, args |-> args, idx |-> 0, brk |-> FALSE]

\* A loop body that goes on to the next handler whatever the flag.
for_handler_nobreak(cur, flag, args) ==
  [cur EXCEPT !.args = args, !.idx = @ + 1]

\* A loop body that hands the event's own args to every handler.
for_handler_sameargs(cur, flag, args) ==
  IF flag # FLAG_CONTINUE THEN [cur EXCEPT !.brk = TRUE]
  ELSE [cur EXCEPT !.idx = @ + 1]

\* One pass of "for handler in self.callbacks[event]", after the handler
\* returned (flag, args): args is rebound, and a flag other than
\* FLAG_CONTINUE breaks out of the loop.
for_handler(cur, flag, args) ==
  IF flag # FLAG_CONTINUE THEN [cur EXCEPT !.args = args, !.brk = TRUE]
  ELSE [cur EXCEPT !.args = args, !.idx = @ + 1]

\* A done() that leaves the flag as it is.
ZenDaemon_done_noop(flag) == flag

\* ZenDaemon.done(): self.flag_done afterwards.
ZenDaemon_done(flag) == TRUE

\* "if event:": None and the empty string are false.
Truthy(event) == event # None /\ event # ""

\* The args values a component's handler may return.
HandlerArgs == {None, "p2"}

\* ------------------------------------------------------- files and signals
\* A string is the sequence of its characters.  CharOrder lists the
\* characters used in the order of their code points.
CharOrder ==
  << ".", "/", "0", "1", "2", "3", "4", "5", "6", "7", "8", "9",
     "a", "c", "d", "e", "g", "i", "k", "l", "n", "o", "p", "r", "s", "t", "u", "x" >>

CharRank(c) == CHOOSE i \in 1..Len(CharOrder) : CharOrder[i] = c

\* str.__lt__
RECURSIVE StringLt(_, _)
StringLt(x, y) ==
  IF y = <<>> THEN FALSE
  ELSE IF x = <<>> THEN TRUE
  ELSE IF Head(x) # Head(y) THEN CharRank(Head(x)) < CharRank(Head(y))
  ELSE StringLt(Tail(x), Tail(y))

StartsWith(str, prefix) ==
  Len(str) >= Len(prefix) /\ SubSeq(str, 1, Len(prefix)) = prefix

EndsWith(str, suffix) ==
  Len(str) >= Len(suffix) /\ SubSeq(str, Len(str) - Len(suffix) + 1, Len(str)) = suffix

\* str(n) for n >= 0, and "{:05d}".format(n): at least five digits.
RECURSIVE Decimal(_)
Decimal(n) ==
  IF n < 10 THEN <<CharOrder[n + 3]>>
  ELSE Append(Decimal(n \div 10), CharOrder[(n % 10) + 3])

RECURSIVE ZeroPad(_, _)
ZeroPad(digits, width) ==
  IF Len(digits) >= width THEN digits ELSE ZeroPad(<<"0">> \o digits, width)

Format05d(n) == ZeroPad(Decimal(n), 5)

\* re.sub(r'\.<ext>$', repl, str) for a string without line breaks: the
\* extension at the end of str is replaced, and a str that does not end with
\* it is returned as it is.
re_sub_ext(ext, repl, str) ==
  IF EndsWith(str, <<".">> \o ext)
  THEN SubSeq(str, 1, Len(str) - Len(ext) - 1) \o repl
  ELSE str

\* os.path.join(a, b) for a relative b.
os_path_join(a, b) ==
  IF a = <<>> \/ EndsWith(a, <<"/">>) THEN a \o b ELSE a \o <<"/">> \o b

\* sorted(paths, reverse = reverse) for a set of strings.
RECURSIVE sorted(_, _)
sorted(paths, reverse) ==
  IF paths = {} THEN <<>>
  ELSE LET first == CHOOSE p \in paths :
                      \A q \in paths \ {p} :
                        IF reverse THEN StringLt(q, p) ELSE StringLt(p, q)
       IN  <<first>> \o sorted(paths \ {first}, reverse)

PidExt == <<"p", "i", "d">>
StateExt == <<"s", "t", "a", "t", "e">>
RunlogExt == <<"r", "u", "n", "l", "o", "g">>

\* glob.glob(os.path.join(run, name + '*.pid')) over the files of directory
\* run: the paths of the files whose name starts with name and ends in .pid.
glob_pidfiles(run, name, files) ==
  { os_path_join(run, f) :
      f \in { g \in files : /\ StartsWith(g, name)
                            /\ EndsWith(g, <<".">> \o PidExt)
                            /\ Len(g) >= Len(name) + Len(PidExt) + 1 } }

\* ZenDaemon._pidfiles_list(reverse = reverse)
_pidfiles_list(cfg, files, reverse) == sorted(glob_pidfiles(cfg.run, cfg.name, files), reverse)

\* ZenDaemon._get_fn_state()
_get_fn_state(cfg) ==
  IF ~cfg.paralel THEN cfg.state_file
  ELSE re_sub_ext(StateExt, <<".">> \o Format05d(cfg.pid) \o <<".">> \o StateExt,
                  cfg.state_file)

\* ZenDaemon._get_fn_pidfile()
_get_fn_pidfile(cfg) ==
  IF ~cfg.paralel THEN cfg.pid_file
  ELSE re_sub_ext(PidExt, <<".">> \o Format05d(cfg.pid) \o <<".">> \o PidExt,
                  cfg.pid_file)

\* ZenDaemon._get_fn_runlog()
_get_fn_runlog(cfg) ==
  IF ~cfg.paralel
  THEN os_path_join(cfg.runlog_dir, cfg.tsfsf \o <<".">> \o RunlogExt)
  ELSE os_path_join(cfg.runlog_dir,
                    cfg.tsfsf \o <<".">> \o Format05d(cfg.pid) \o <<".">> \o RunlogExt)

\* -------------------------------------------------------------- statistics
\* A dict of statistics maps a key to a number, Leaf(n), or to a dict, Ref(id):
\* the dict object objs[id].  Two keys that hold Ref(id) hold the same object.
Leaf(n) == [leaf |-> n]
Ref(id) == [ref |-> id]
IsDict(v) == "ref" \in DOMAIN v

\* a / b for an int or float a and a float b.
TrueDiv(a, b) ==
  IF b = 0 THEN [exc |-> "ZeroDivisionError", num |-> 0, den |-> 0]
  ELSE [exc |-> "none", num |-> a, den |-> b]

\* The four values calc_statistics derives for a counter; stats_cur[key] / 100
\* is zero iff stats_cur[key] is.
Derived(cur, prev, tdiff) ==
  [cnt |-> cur, inc |-> cur - prev,
   spd |-> TrueDiv(cur - prev, tdiff),
   pct |-> TrueDiv((cur - prev) * 100, cur)]

\* calc_statistics(stats_cur, stats_prev, tdiff), with the dict objects objs.
RECURSIVE calc_statistics(_, _, _, _)
calc_statistics(stats_cur, stats_prev, tdiff, objs) ==
  [key \in DOMAIN stats_cur |->
     IF IsDict(stats_cur[key])
     THEN calc_statistics(objs[stats_cur[key].ref],
                          IF key \in DOMAIN stats_prev
                          THEN objs[stats_prev[key].ref] ELSE <<>>,
                          tdiff, objs)
     ELSE Derived(stats_cur[key].leaf,
                  IF key \in DOMAIN stats_prev THEN stats_prev[key].leaf ELSE 0,
                  tdiff)]

\* A division made by calc_statistics raised ZeroDivisionError.
RECURSIVE Raises(_)
Raises(result) ==
  \E key \in DOMAIN result :
    IF "cnt" \in DOMAIN result[key]
    THEN result[key].spd.exc # "none" \/ result[key].pct.exc # "none"
    ELSE Raises(result[key])

\* ZenDaemonComponent.__init__
ZenDaemonComponent(time_time) ==
  [statistics_cur |-> <<>>, statistics_prev |-> <<>>, statistics_ts |-> time_time,
   objs |-> <<>>]

\* ZenDaemonComponent.inc_statistic(key, increment)
inc_statistic(self, key, increment) ==
  LET cur == IF key \in DOMAIN self.statistics_cur
             THEN self.statistics_cur[key].leaf ELSE 0
  IN  [self EXCEPT !.statistics_cur = (key :> Leaf(cur + increment)) @@ @]

\* A component that keeps a sub-tree of counters under key writes it in
\* place: self.statistics_cur.setdefault(key, {}), then
\* d[sub] = d.get(sub, 0) + increment on that dict.
inc_nested(self, key, sub, increment) ==
  IF key \in DOMAIN self.statistics_cur
  THEN LET id == self.statistics_cur[key].ref
           d == self.objs[id]
           cur == IF sub \in DOMAIN d THEN d[sub].leaf ELSE 0
       IN  [self EXCEPT !.objs[id] = (sub :> Leaf(cur + increment)) @@ d]
  ELSE LET id == Len(self.objs) + 1
       IN  [self EXCEPT !.objs = Append(@, sub :> Leaf(increment)),
                        !.statistics_cur = (key :> Ref(id)) @@ @]

\* ZenDaemonComponent.get_statistics(): copy.copy makes a new dict that holds
\* the values of statistics_cur, the dicts among them being the same objects.
get_statistics(self, time_time) ==
  LET tdiff == time_time - self.statistics_ts
      result == calc_statistics(self.statistics_cur, self.statistics_prev, tdiff,
                                self.objs)
  IN  IF Raises(result)
      THEN [self |-> self, result |-> <<>>, exc |-> "ZeroDivisionError"]
      ELSE [self |-> [self EXCEPT !.statistics_prev = self.statistics_cur,
                                  !.statistics_ts = time_time],
            result |-> result, exc |-> "none"]

\* ZenDaemonComponent.get_state()
component_get_state(self) == [statistics |-> self.statistics_cur]

\* The loop of ZenDaemon._get_state over self.components, the component
\* objects being objects: state['components'] afterwards.
RECURSIVE _get_state(_, _, _)
_get_state(self_components, objects, state_components) ==
  IF self_components = <<>> THEN state_components
  ELSE LET component == objects[Head(self_components)]
       IN  _get_state(Tail(self_components), objects,
                      (component.class :> component_get_state(component.self))
                        @@ state_components)

\* The loop of ZenDaemon._get_statistics at the time time_time:
\* statistics['components'] afterwards, the component objects afterwards and
\* the exception that a get_statistics() call raised.
RECURSIVE _get_statistics(_, _, _, _)
_get_statistics(self_components, objects, statistics_components, time_time) ==
  IF self_components = <<>>
  THEN [cobj |-> objects, components |-> statistics_components, exc |-> "none"]
  ELSE LET c == Head(self_components)
           r == get_statistics(objects[c].self, time_time)
       IN  IF r.exc # "none"
           THEN [cobj |-> objects, components |-> statistics_components,
                 exc |-> r.exc]
           ELSE _get_statistics(Tail(self_components),
                                [objects EXCEPT ![c].self = r.self],
                                (objects[c].class :> r.result) @@ statistics_components,
                                time_time)

\* ----------------------------------------------------- pyzenkit.daemonizer
\* The module pyzenkit.daemonizer is not among the sources: write_pid,
\* read_pid and daemonize_lite are modelled from their description and from
\* the calls made on them.  A PID file holds the decimal digits of the
\* process id followed by a newline.
IntValue(n) == [type |-> "int", val |-> n]
StrValue(str) == [type |-> "str", val |-> 0, str |-> str]

IsDigit(c) == \E i \in 3..12 : CharOrder[i] = c
DigitValue(c) == (CHOOSE i \in 3..12 : CharOrder[i] = c) - 3
IsSpace(c) == c \in {"\n", " "}

RECURSIVE strip(_)
strip(str) ==
  IF str = <<>> THEN str
  ELSE IF IsSpace(str[1]) THEN strip(Tail(str))
  ELSE IF IsSpace(str[Len(str)]) THEN strip(SubSeq(str, 1, Len(str) - 1))
  ELSE str

RECURSIVE DigitsValue(_)
DigitsValue(digits) ==
  IF digits = <<>> THEN 0
  ELSE DigitsValue(SubSeq(digits, 1, Len(digits) - 1)) * 10
       + DigitValue(digits[Len(digits)])

\* int(str) for a string read from a file.
int(str) ==
  LET digits == strip(str)
  IN  IF digits # <<>> /\ \A i \in 1..Len(digits) : IsDigit(digits[i])
      THEN [exc |-> "none", val |-> DigitsValue(digits)]
      ELSE [exc |-> "ValueError", val |-> 0]

\* os.path.dirname(path)
os_path_dirname(path) ==
  LET slashes == {i \in 1..Len(path) : path[i] = "/"}
      last_slash == CHOOSE i \in slashes : \A j \in slashes : j <= i
  IN  IF slashes = {} THEN <<>>
      ELSE IF last_slash = 1 THEN <<"/">>
      ELSE SubSeq(path, 1, last_slash - 1)

\* The process and the file system it sees: the directories, the files with
\* their contents, the working directory, the handler of each signal, the
\* umask, the forks made, the session and the standard streams.
OS(dirs, files, cwd) ==
  [dirs |-> dirs, files |-> files, cwd |-> cwd,
   handlers |-> [sig \in {"SIGHUP", "SIGUSR1", "SIGUSR2"} |-> "SIG_DFL"],
   umask |-> 18, forks |-> 0, sid |-> "caller", stdio |-> "caller"]

\* A write_pid that opens the file for appending.
write_pid_append(os, pid_file, pid) ==
  IF pid.type # "int"
  THEN [os |-> os, exc |-> "Exception"]
  ELSE IF os_path_dirname(pid_file) \notin os.dirs
  THEN [os |-> os, exc |-> "FileNotFoundError"]
  ELSE [os |-> [os EXCEPT !.files =
                  (pid_file :> ((IF pid_file \in DOMAIN @ THEN @[pid_file] ELSE <<>>)
                                \o Decimal(pid.val) \o <<"\n">>)) @@ @],
        exc |-> "none"]

\* write_pid(pid_file, pid): the file is created, or overwritten if present.
write_pid(os, pid_file, pid) ==
  IF pid.type # "int"
  THEN [os |-> os, exc |-> "Exception"]
  ELSE IF os_path_dirname(pid_file) \notin os.dirs
  THEN [os |-> os, exc |-> "FileNotFoundError"]
  ELSE [os |-> [os EXCEPT !.files = (pid_file :> (Decimal(pid.val) \o <<"\n">>)) @@ @],
        exc |-> "none"]

\* read_pid(pid_file): the integer the file holds.
read_pid(os, pid_file) ==
  IF pid_file \notin DOMAIN os.files
  THEN [exc |-> "FileNotFoundError", val |-> 0]
  ELSE int(os.files[pid_file])

\* daemonize(work_dir, pid_file, umask, signals) in the process getpid, with
\* no chroot_dir: fork twice with a new session in between, change the
\* working directory, set the umask, redirect the standard streams, write
\* the PID file of the process that is left (here, the second process made
\* after getpid), install the signal handlers and return.
daemonize(os, getpid, work_dir, pid_file, umask, signals) ==
  LET child == getpid + 2
      moved == [os EXCEPT !.forks = 2, !.sid = "own", !.cwd = work_dir,
                          !.umask = umask, !.stdio = "/dev/null"]
      written == write_pid(moved, pid_file, IntValue(child))
  IN  IF written.exc # "none"
      THEN [os |-> written.os, exc |-> written.exc, pid |-> 0, pid_file |-> <<>>]
      ELSE [os |-> [written.os EXCEPT !.handlers = signals @@ @],
            exc |-> "none", pid |-> child, pid_file |-> pid_file]

\* daemonize_lite(work_dir, pid_file, umask, signals) in the process getpid,
\* with no chroot_dir: change the working directory, set the umask, write the
\* PID file, install the signal handlers and return (pid, pid_file).
daemonize_lite(os, getpid, work_dir, pid_file, umask, signals) ==
  LET moved == [os EXCEPT !.cwd = work_dir, !.umask = umask]
      written == write_pid(moved, pid_file, IntValue(getpid))
  IN  IF written.exc # "none"
      THEN [os |-> written.os, exc |-> written.exc, pid |-> 0, pid_file |-> <<>>]
      ELSE [os |-> [written.os EXCEPT !.handlers = signals @@ @],
            exc |-> "none", pid |-> getpid, pid_file |-> pid_file]

\* The handlers _daemonize passes to the daemonizer.
Signals ==
  [sig \in {"SIGHUP", "SIGUSR1", "SIGUSR2"} |->
     IF sig = "SIGHUP" THEN "_hnd_signal_hup"
     ELSE IF sig = "SIGUSR1" THEN "_hnd_signal_usr1" ELSE "_hnd_signal_usr2"]

\* A _daemonize with the test of the no-daemon configuration inverted.
_daemonize_inverted(os, cfg, nodaemon, work_dir) ==
  IF nodaemon
  THEN daemonize(os, cfg.pid, work_dir, _get_fn_pidfile(cfg), 2, Signals)
  ELSE daemonize_lite(os, cfg.pid, work_dir, _get_fn_pidfile(cfg), 2, Signals)

\* ZenDaemon._daemonize(): the full daemonization, or the simple one when the
\* configuration says no-daemon, with the working directory and umask of the
\* configuration, the name of the PID file and the three signal handlers.
_daemonize(os, cfg, nodaemon, work_dir) ==
  IF ~nodaemon
  THEN daemonize(os, cfg.pid, work_dir, _get_fn_pidfile(cfg), 2, Signals)
  ELSE daemonize_lite(os, cfg.pid, work_dir, _get_fn_pidfile(cfg), 2, Signals)

\* ------------------------------------------------------------------- state
VARIABLES
  queue,      \* the EventQueueManager: [events, events_at]
  now,        \* time.time()
  nextid,     \* number of scheduling calls made so far
  log,        \* log[id]: the scheduling call that made entry id
  last,       \* the last call on the queue and what it returned or raised
  returned,   \* the ids of the entries next() has returned, in order
  pc,         \* where the engine is: in its constructor, in _event_loop, ...
  callbacks,  \* self.callbacks: event name -> list of callbacks
  components, \* self.components
  flag_done,  \* self.flag_done
  cur,        \* the loop variables of _event_loop (see Dispatch)
  alarm,      \* the time the alarm set by wait() goes off (0: none set)
  raised,     \* the exception that ended _event_loop ("none": none did)
  reglog,     \* the registrations made so far, in the order they were made
  calls,      \* the handler calls made for the event dequeued last
  excarg,     \* the argument of the exception raised (None: it has none)
  reported,   \* the self.error() calls made by _sub_stage_process
  snapshot,   \* self.callbacks[event] as it was when the dispatch began
  siglog,     \* the signals delivered: the entry made, where the loop was, and
              \* how many entries next() had returned
  raised_at,  \* where the loop was when the exception was raised
  config,     \* the configuration, the process id and the names of the daemon
  rundir,     \* the files of the run directory: name -> what reading the file
              \* and signalling its process comes to
  fcall,      \* the last call of a file-name method and what it returned
  sender,     \* the local variables of send_signal and what it has done
  stats,      \* a component's statistics_cur, statistics_prev, statistics_ts
              \* and the dicts that are values of their keys
  scall,      \* the last call on the component's statistics and its result
  seen,       \* the counters as they were when get_statistics last returned
  os,         \* the process and the file system (see OS)
  dcall,      \* the last call on pyzenkit.daemonizer and what it returned
  wtime,      \* the wait_time of _event_loop while wait() runs (0: it does not)
  dlog,       \* the calls of done(): where the engine was and how many
              \* entries next() had returned
  cobj,       \* the component objects, cobj[c] for self.components[c]: the
              \* name of the class and the fields of the object
  snap        \* the last call of _get_state or _get_statistics and its result

qvars == <<queue, now, nextid, log, last, returned>>
xvars == <<excarg, reported, snapshot, siglog, raised_at>>
svars == <<stats, scall, seen>>
dvars == <<os, dcall>>
fvars == <<config, rundir, fcall, sender, stats, scall, seen, os, dcall, wtime, dlog, cobj, snap>>
evars == <<pc, callbacks, components, flag_done, cur, alarm, raised, reglog, calls,
           excarg, reported, snapshot, siglog, raised_at,
           config, rundir, fcall, sender, stats, scall, seen, os, dcall, wtime, dlog, cobj, snap>>
vars == <<queue, now, nextid, log, last, returned,
          pc, callbacks, components, flag_done, cur, alarm, raised, reglog, calls,
          excarg, reported, snapshot, siglog, raised_at,
          config, rundir, fcall, sender, stats, scall, seen, os, dcall, wtime, dlog, cobj, snap>>

\* ---------------------------------------- the queue under arbitrary callers
Call(op, id, res, exc) ==
  [op |-> op, id |-> id, event |-> res.event, args |-> res.args, exc |-> exc]

\* kind: "schedule", "schedule_next" or "timed" (schedule_at, schedule_after).
Logged(kind, tstamp, event, args, exc) ==
  [kind |-> kind, tstamp |-> tstamp, event |-> event, args |-> args, exc |-> exc]

\* The daemon's name, its run directory, and the configuration it has when
\* nothing is given on the command line: <run>/<name>.pid, <run>/<name>.state.
Name == <<"d">>
RunDir == <<"/", "r">>
Tsfsf == <<"t", "1">>

Config(paralel, pid, pid_file, state_file, runlog_dir) ==
  [paralel |-> paralel, pid |-> pid, pid_file |-> pid_file, state_file |-> state_file,
   runlog_dir |-> runlog_dir, tsfsf |-> Tsfsf, run |-> RunDir, name |-> Name]

DefaultConfig ==
  Config(FALSE, 42, os_path_join(RunDir, Name \o <<".">> \o PidExt),
         os_path_join(RunDir, Name \o <<".">> \o StateExt), RunDir)

FileCall(op, reverse, result) == [op |-> op, reverse |-> reverse, result |-> result]

Sender(at, pidfl, i, sent, printed) ==
  [pc |-> at, pidfl |-> pidfl, i |-> i, sent |-> sent, printed |-> printed]

\* No file-name method has been called, send_signal is not running.
StatsCall(op, result, exc, before) ==
  [op |-> op, result |-> result, exc |-> exc, before |-> before]

\* A call of _get_state or _get_statistics: the 'components' dict of the
\* result, or the exception raised.
SnapCall(op, comps, exc) == [op |-> op, components |-> comps, exc |-> exc]

DaemonizerCall(op, pid_file, pid, exc, val) ==
  [op |-> op, pid_file |-> pid_file, pid |-> pid, exc |-> exc, val |-> val,
   work_dir |-> <<>>, nodaemon |-> FALSE]

FInit ==
  /\ fcall = FileCall("none", FALSE, <<>>)
  /\ sender = Sender("idle", <<>>, 0, <<>>, <<>>)
  /\ stats = ZenDaemonComponent(0)
  /\ scall = StatsCall("none", <<>>, "none", <<>>)
  /\ seen = <<>>
  /\ os = OS({<<"/">>, RunDir}, <<>>, <<"/">>)
  /\ dcall = DaemonizerCall("none", <<>>, IntValue(0), "none", 0)
  /\ wtime = 0
  /\ dlog = <<>>
  /\ cobj = <<>>
  /\ snap = SnapCall("none", <<>>, "none")

\* ZenDaemon.__init__ up to "self.callbacks = {}".
EInit ==
  /\ flag_done = FALSE
  /\ callbacks = <<>>
  /\ components = <<>>
  /\ cur = Dispatch(None, None)
  /\ alarm = 0
  /\ raised = "none"
  /\ reglog = <<>>
  /\ calls = <<>>
  /\ excarg = None
  /\ reported = <<>>
  /\ snapshot = <<>>
  /\ siglog = <<>>
  /\ raised_at = "none"

\* A queue of its own, with no engine around it.
QInit ==
  /\ pc = "queue"
  /\ EInit
  /\ queue = EventQueueManager
  /\ now = 0
  /\ nextid = 0
  /\ log = <<>>
  /\ last = Call("init", 0, Result(None, None, 0), "none")
  /\ returned = <<>>
  /\ config = DefaultConfig
  /\ rundir = <<>>
  /\ FInit

QSchedule ==
  \E event \in QEvents, args \in QArgs :
    /\ nextid < MaxEntries
    /\ queue' = schedule(queue, event, args, nextid + 1)
    /\ nextid' = nextid + 1
    /\ log' = Append(log, Logged("schedule", 0, event, args, "none"))
    /\ last' = Call("schedule", nextid + 1, Result(event, args, 0), "none")
    /\ UNCHANGED <<now, returned>>
    /\ UNCHANGED evars

QScheduleNext ==
  \E event \in QEvents, args \in QArgs :
    /\ nextid < MaxEntries
    /\ queue' = schedule_next(queue, event, args, nextid + 1)
    /\ nextid' = nextid + 1
    /\ log' = Append(log, Logged("schedule_next", 0, event, args, "none"))
    /\ last' = Call("schedule_next", nextid + 1, Result(event, args, 0), "none")
    /\ UNCHANGED <<now, returned>>
    /\ UNCHANGED evars

QScheduleAt ==
  \E tstamp \in 0..MaxTime, event \in QEvents, args \in QArgs :
    /\ nextid < MaxEntries
    /\ LET r == schedule_at(queue, tstamp, event, args, nextid + 1)
       IN  /\ queue' = r.self
           /\ log' = Append(log, Logged("timed", tstamp, event, args, r.exc))
           /\ last' = Call("schedule_at", nextid + 1, Result(event, args, 0), r.exc)
    /\ nextid' = nextid + 1
    /\ UNCHANGED <<now, returned>>
    /\ UNCHANGED evars

QScheduleAfter ==
  \E delay \in 0..MaxDelay, event \in QEvents, args \in QArgs :
    /\ nextid < MaxEntries
    /\ LET r == schedule_after(queue, now, delay, event, args, nextid + 1)
       IN  /\ queue' = r.self
           /\ log' = Append(log, Logged("timed", now + delay, event, args, r.exc))
           /\ last' = Call("schedule_after", nextid + 1, Result(event, args, 0), r.exc)
    /\ nextid' = nextid + 1
    /\ UNCHANGED <<now, returned>>
    /\ UNCHANGED evars

QNext ==
  LET r == next(queue, now)
  IN  /\ queue' = r.self
      /\ last' = Call("next", r.result.id, r.result, r.exc)
      /\ returned' = IF r.result.id # 0 THEN Append(returned, r.result.id)
                     ELSE returned
      /\ UNCHANGED <<now, nextid, log>>
      /\ UNCHANGED evars

\* The wall clock advances.
Tick ==
  /\ now < MaxTime
  /\ now' = now + 1
  /\ last' = Call("tick", 0, Result(None, None, 0), "none")
  /\ UNCHANGED <<queue, nextid, log, returned>>
  /\ UNCHANGED evars

QNextStep ==
  \/ QSchedule
  \/ QScheduleNext
  \/ QScheduleAt
  \/ QScheduleAfter
  \/ QNext
  \/ Tick

SpecQueue == QInit /\ [][QNextStep]_vars

\* ------------------------------------------------------------- the engine
\* The events the engine's callers and handlers schedule.
EngineEvents == {"default", EVENT_SIGNAL_USR1, EVENT_LOG_STATISTICS}

Init ==
  /\ pc = "_init_callbacks"
  /\ EInit
  /\ queue = EventQueueManager
  /\ now = 0
  /\ nextid = 0
  /\ log = <<>>
  /\ last = Call("init", 0, Result(None, None, 0), "none")
  /\ returned = <<>>
  /\ config = DefaultConfig
  /\ rundir = <<>>
  /\ FInit

\* __init__: self._init_callbacks(**kwargs)
InitCallbacks ==
  /\ pc = "_init_callbacks"
  /\ callbacks' = _init_event_callbacks(callbacks, get_events)
  /\ reglog' = reglog \o get_events
  /\ pc' = "_init_components"
  /\ UNCHANGED <<components, flag_done, cur, alarm, raised, calls>>
  /\ UNCHANGED qvars
  /\ UNCHANGED xvars
  /\ UNCHANGED fvars

\* _init_components: one pass of "for component in components".
InitComponent ==
  /\ pc = "_init_components"
  /\ Len(components) < MaxComponents
  /\ LET component == Len(components) + 1
     IN  \E n \in 1..MaxRegs :
           \E elist \in component_get_events(component, n) :
             /\ components' = Append(components, component)
             /\ callbacks' = _init_event_callbacks(callbacks, elist)
             /\ reglog' = reglog \o elist
  /\ UNCHANGED <<pc, flag_done, cur, alarm, raised, calls>>
  /\ UNCHANGED qvars
  /\ UNCHANGED xvars
  /\ UNCHANGED fvars

\* _init_components returns: the list of components is exhausted.
InitComponentsDone ==
  /\ pc = "_init_components"
  /\ pc' = "schedule"
  /\ UNCHANGED <<callbacks, components, flag_done, cur, alarm, raised, reglog, calls>>
  /\ UNCHANGED qvars
  /\ UNCHANGED xvars
  /\ UNCHANGED fvars

\* _init_schedule goes through kwargs 'schedule', 'schedule_next',
\* 'schedule_at' and 'schedule_after', in this order.
SchedulePhases == <<"schedule", "schedule_next", "schedule_at", "schedule_after">>

PhaseRank(phase) == CHOOSE i \in 1..Len(SchedulePhases) : SchedulePhases[i] = phase

InSchedule == pc \in {SchedulePhases[i] : i \in 1..Len(SchedulePhases)}

\* One scheduling call of the engine or of a handler on self.queue: the
\* queue afterwards, the log entry, and the exception raised.
EngineSchedule(kind, tstamp, event, args) ==
  LET id == nextid + 1
      at == IF kind = "schedule_at" THEN schedule_at(queue, tstamp, event, args, id)
            ELSE schedule_after(queue, now, tstamp, event, args, id)
  IN  IF kind = "schedule"
      THEN [self |-> schedule(queue, event, args, id), exc |-> "none",
            logged |-> Logged("schedule", 0, event, args, "none")]
      ELSE IF kind = "schedule_next"
      THEN [self |-> schedule_next(queue, event, args, id), exc |-> "none",
            logged |-> Logged("schedule_next", 0, event, args, "none")]
      ELSE [self |-> at.self, exc |-> at.exc,
            logged |-> Logged("timed", IF kind = "schedule_at" THEN tstamp
                                       ELSE now + tstamp, event, args, at.exc)]

\* _init_schedule: one scheduling call for an entry of the kwargs lists, which
\* hold at most n entries with event names from events.  An exception raised by the call leaves the
\* constructor.
InitScheduleFrom(n, events) ==
  /\ InSchedule
  /\ nextid < n
  /\ \E kind \in {SchedulePhases[i] : i \in PhaseRank(pc)..Len(SchedulePhases)},
        event \in events, args \in QArgs, t \in 0..MaxDelay :
       /\ (kind \in {"schedule", "schedule_next"}) => t = 0
       /\ LET r == EngineSchedule(kind, t, event, args)
          IN  /\ queue' = r.self
              /\ log' = Append(log, r.logged)
              /\ pc' = IF r.exc = "none" THEN kind ELSE "init_error"
              /\ raised' = r.exc
       /\ nextid' = nextid + 1
  /\ UNCHANGED <<now, last, returned, callbacks, components, flag_done, cur, alarm,
                 reglog, calls>>
  /\ UNCHANGED xvars
  /\ UNCHANGED fvars

InitScheduleUpTo(n) == InitScheduleFrom(n, EngineEvents)

InitSchedule == InitScheduleUpTo(MaxInitial)

\* The constructor returns, and run() gets to _event_loop.
Run ==
  /\ InSchedule
  /\ pc' = "loop_enter"
  /\ UNCHANGED <<callbacks, components, flag_done, cur, alarm, raised, reglog, calls>>
  /\ UNCHANGED qvars
  /\ UNCHANGED xvars
  /\ UNCHANGED fvars

\* _event_loop: self.flag_done = False
LoopEnter ==
  /\ pc = "loop_enter"
  /\ flag_done' = FALSE
  /\ pc' = "loop_while"
  /\ UNCHANGED <<callbacks, components, cur, alarm, raised, reglog, calls>>
  /\ UNCHANGED qvars
  /\ UNCHANGED xvars
  /\ UNCHANGED fvars

\* while not self.flag_done
LoopWhile ==
  /\ pc = "loop_while"
  /\ pc' = IF flag_done THEN "finished" ELSE "loop_next"
  /\ UNCHANGED <<callbacks, components, flag_done, cur, alarm, raised, reglog, calls>>
  /\ UNCHANGED qvars
  /\ UNCHANGED xvars
  /\ UNCHANGED fvars

\* A try block that goes on to the next event when the event has no callback.
_event_loop_try_skip(r, cbs, done) ==
  IF r.exc = "QueueEmptyException"
  THEN [pc |-> "loop_while", raised |-> "none", excarg |-> None, flag_done |-> TRUE]
  ELSE IF r.exc # "none"
  THEN [pc |-> "error", raised |-> r.exc, excarg |-> None, flag_done |-> done]
  ELSE IF Truthy(r.result.event)
  THEN IF r.result.event \notin DOMAIN cbs
       THEN [pc |-> "loop_while", raised |-> "none", excarg |-> None, flag_done |-> done]
       ELSE [pc |-> "loop_for", raised |-> "none", excarg |-> None, flag_done |-> done]
  ELSE [pc |-> "loop_wait", raised |-> "none", excarg |-> None, flag_done |-> done]

\* A try block without the except clause for QueueEmptyException.
_event_loop_try_nocatch(r, cbs, done) ==
  IF r.exc # "none"
  THEN [pc |-> "error", raised |-> r.exc, excarg |-> None, flag_done |-> done]
  ELSE IF Truthy(r.result.event)
  THEN IF r.result.event \notin DOMAIN cbs
       THEN [pc |-> "error", raised |-> "ZenDaemonException",
             excarg |-> r.result.event, flag_done |-> done]
       ELSE [pc |-> "loop_for", raised |-> "none", excarg |-> None, flag_done |-> done]
  ELSE [pc |-> "loop_wait", raised |-> "none", excarg |-> None, flag_done |-> done]

\* The try block of _event_loop up to the for loop, given what
\* self.queue.next() returned or raised: where the loop goes on, the exception
\* that leaves it with its argument, and self.flag_done.  QueueEmptyException
\* is caught inside the loop; any other exception leaves _event_loop.
_event_loop_try(r, cbs, done) ==
  IF r.exc = "QueueEmptyException"
  THEN [pc |-> "loop_while", raised |-> "none", excarg |-> None, flag_done |-> TRUE]
  ELSE IF r.exc # "none"
  THEN [pc |-> "error", raised |-> r.exc, excarg |-> None, flag_done |-> done]
  ELSE IF Truthy(r.result.event)
  THEN IF r.result.event \notin DOMAIN cbs
       THEN [pc |-> "error", raised |-> "ZenDaemonException",
             excarg |-> r.result.event, flag_done |-> done]
       ELSE [pc |-> "loop_for", raised |-> "none", excarg |-> None, flag_done |-> done]
  ELSE [pc |-> "loop_wait", raised |-> "none", excarg |-> None, flag_done |-> done]

\* (event, args) = self.queue.next(), "if event:" and the lookup of the event
\* in self.callbacks.
LoopNext ==
  /\ pc = "loop_next"
  /\ LET r == next(queue, now)
         o == _event_loop_try(r, callbacks, flag_done)
     IN  /\ queue' = r.self
         /\ last' = Call("next", r.result.id, r.result, r.exc)
         /\ returned' = IF r.result.id # 0 THEN Append(returned, r.result.id)
                        ELSE returned
         /\ calls' = <<>>
         /\ pc' = o.pc
         /\ flag_done' = o.flag_done
         /\ raised' = o.raised
         /\ excarg' = o.excarg
         /\ raised_at' = IF o.raised # "none" THEN "loop_next" ELSE raised_at
         /\ cur' = IF o.pc = "loop_for" THEN Dispatch(r.result.event, r.result.args)
                   ELSE cur
         /\ snapshot' = IF o.pc = "loop_for" THEN callbacks[r.result.event]
                        ELSE <<>>
  /\ UNCHANGED <<now, nextid, log, callbacks, components, alarm, reglog,
                 reported, siglog>>
  /\ UNCHANGED fvars

\* What a call of a handler may do: the (flag, args) it returns and the
\* scheduling call it makes on daemon.queue ("none": it makes none).  The
\* built-in callbacks return (FLAG_CONTINUE, args); cbk_event_log_statistics
\* schedules the next log_statistics event.  A component's callback returns
\* any flag and any args, or does as DemoDaemonComponent.cbk_event_default
\* does: it schedules 'default' and returns (FLAG_CONTINUE, None).
Outcome(flag, args, kind, event) ==
  [flag |-> flag, args |-> args, kind |-> kind, event |-> event]

HandlerOutcomes(handler, args) ==
  IF handler.comp = 0
  THEN IF handler.cbk = "cbk_event_log_statistics"
       THEN {Outcome(FLAG_CONTINUE, args, "schedule_after", EVENT_LOG_STATISTICS)}
       ELSE {Outcome(FLAG_CONTINUE, args, "none", None)}
  ELSE { Outcome(flag, ret, "none", None) :
           flag \in {FLAG_CONTINUE, FLAG_STOP}, ret \in HandlerArgs }
       \cup {Outcome(FLAG_CONTINUE, None, "schedule", "default")}

\* The exceptions a component's handler may raise instead of returning.
HandlerExceptions ==
  {"CalledProcessError", "ZenDaemonComponentException", "KeyboardInterrupt"}

HandlerRaises(handler) ==
  IF handler.comp = 0 THEN {}
  ELSE { Outcome(FLAG_STOP, None, "raise", exc) : exc \in HandlerExceptions }

\* A component's handler may call daemon._init_event_callback for the event
\* it is handling, with prepend False or True, and return (FLAG_CONTINUE, None).
HandlerRegisters(handler, event) ==
  IF handler.comp = 0 THEN {}
  ELSE { Outcome(FLAG_CONTINUE, None, kind, event) : kind \in {"append", "prepend"} }

\* The callbacks registered by handlers so far.
DynRegs == {i \in 1..Len(reglog) : reglog[i].callback.cbk = "cbk_event_dyn"}

\* (flag, args) = handler(self, args) and "if flag != self.FLAG_CONTINUE:
\* break", for a handler that does as out says and leaves self.flag_done and
\* the calls of done() as given.
HandlerReturn(handler, out, done_flag, done_calls) ==
  LET returns == Append(calls, [handler |-> handler, args |-> cur.args,
                                flag |-> out.flag, ret |-> out.args])
  IN  /\ IF out.kind = "none"
         THEN /\ calls' = returns
              /\ cur' = for_handler(cur, out.flag, out.args)
              /\ pc' = IF cur'.brk THEN "loop_while" ELSE "loop_for"
              /\ UNCHANGED <<queue, nextid, log, raised, raised_at, callbacks, reglog>>
         ELSE IF out.kind = "raise"
         THEN /\ pc' = "error"
              /\ raised' = out.event
              /\ raised_at' = "loop_for"
              /\ UNCHANGED <<queue, nextid, log, calls, cur, callbacks, reglog>>
         ELSE IF out.kind \in {"append", "prepend"}
         THEN /\ Cardinality(DynRegs) < MaxDynRegs
              /\ LET callback == Callback(handler.comp, "cbk_event_dyn")
                 IN  /\ callbacks' = _init_event_callback(callbacks, out.event, callback,
                                                         out.kind = "prepend")
                     /\ reglog' = Append(reglog, Registration(out.event, callback,
                                                              out.kind = "prepend"))
              /\ calls' = returns
              /\ cur' = for_handler(cur, out.flag, out.args)
              /\ pc' = IF cur'.brk THEN "loop_while" ELSE "loop_for"
              /\ UNCHANGED <<queue, nextid, log, raised, raised_at>>
         ELSE /\ nextid < MaxEntries
              /\ LET r == EngineSchedule(out.kind, StatsInterval, out.event, None)
                 IN  /\ queue' = r.self
                     /\ log' = Append(log, r.logged)
                     /\ raised' = r.exc
                     /\ raised_at' = IF r.exc # "none" THEN "loop_for" ELSE raised_at
                     /\ calls' = IF r.exc = "none" THEN returns ELSE calls
                     /\ cur' = IF r.exc = "none"
                               THEN for_handler(cur, out.flag, out.args)
                               ELSE cur
                     /\ pc' = IF r.exc # "none" THEN "error"
                              ELSE IF cur'.brk THEN "loop_while" ELSE "loop_for"
              /\ nextid' = nextid + 1
              /\ UNCHANGED <<callbacks, reglog>>
      /\ flag_done' = done_flag
      /\ dlog' = done_calls
      /\ UNCHANGED <<now, last, returned, components, alarm,
                     excarg, reported, snapshot, siglog>>
      /\ UNCHANGED <<config, rundir, fcall, sender, stats, scall, seen, os, dcall, wtime, cobj, snap>>

\* A handler that does not call daemon.done().
HandlerCall(handler, out) == HandlerReturn(handler, out, flag_done, dlog)

\* for handler in self.callbacks[event]: the list has one more handler.  The
\* list is self.callbacks[event] itself, as it is when the for loop asks for
\* its next item.
NextHandler == callbacks[cur.event][cur.idx + 1]

\* The handler is called with the current args and returns.
LoopHandler ==
  /\ pc = "loop_for"
  /\ cur.idx < Len(callbacks[cur.event])
  /\ \E out \in HandlerOutcomes(NextHandler, cur.args) : HandlerCall(NextHandler, out)

\* The handler is called and raises an exception.
LoopHandlerRaises ==
  /\ pc = "loop_for"
  /\ cur.idx < Len(callbacks[cur.event])
  /\ \E out \in HandlerRaises(NextHandler) : HandlerCall(NextHandler, out)

\* The handler is called and registers a callback for the event it handles.
LoopHandlerRegisters ==
  /\ pc = "loop_for"
  /\ cur.idx < Len(callbacks[cur.event])
  /\ \E out \in HandlerRegisters(NextHandler, cur.event) : HandlerCall(NextHandler, out)

\* for handler in self.callbacks[event]: the list is exhausted.
LoopForEnd ==
  /\ pc = "loop_for"
  /\ cur.idx >= Len(callbacks[cur.event])
  /\ pc' = "loop_while"
  /\ UNCHANGED <<callbacks, components, flag_done, cur, alarm, raised, reglog, calls>>
  /\ UNCHANGED qvars
  /\ UNCHANGED xvars
  /\ UNCHANGED fvars

\* A math.ceil that cuts the fraction off.
math_ceil_trunc(period, tps) == period \div tps

\* math.ceil(period) for a period of that many ticks, tps ticks a second.
math_ceil(period, tps) == (period + tps - 1) \div tps

\* ZenDaemon.wait(period) up to signal.pause(), at the time time_time: the
\* time the alarm is set for (0: no alarm is set and wait returns).
ZenDaemon_wait(period, time_time, tps) ==
  IF math_ceil(period, tps) > 0
  THEN time_time + math_ceil(period, tps) * tps
  ELSE 0

\* wait_time = self.queue.wait() and, when it is positive, self.wait(wait_time)
\* up to signal.pause(), with a clock of tps ticks a second.  With both stores
\* empty, events_at[0] raises IndexError.
LoopWaitStep(tps) ==
  /\ pc = "loop_wait"
  /\ IF Len(queue.events) = 0 /\ Len(queue.events_at) = 0
     THEN /\ pc' = "error"
          /\ raised' = "IndexError"
          /\ raised_at' = "loop_wait"
          /\ UNCHANGED alarm
     ELSE LET wait_time == wait(queue, now)
          IN  /\ UNCHANGED <<raised, raised_at>>
              /\ IF wait_time > 0 /\ ZenDaemon_wait(wait_time, now, tps) > 0
                 THEN /\ alarm' = ZenDaemon_wait(wait_time, now, tps)
                      /\ pc' = "pause"
                 ELSE /\ pc' = "loop_while"
                      /\ UNCHANGED alarm
  /\ UNCHANGED <<callbacks, components, flag_done, cur, reglog, calls,
                 excarg, reported, snapshot, siglog>>
  /\ UNCHANGED qvars
  /\ UNCHANGED fvars

\* The clock of the engine counts whole seconds.
LoopWait == LoopWaitStep(1)

\* SIGALRM goes off: _hnd_signal_wakeup runs, signal.pause() returns and
\* wait() clears the alarm.
Wakeup ==
  /\ pc = "pause"
  /\ now >= alarm
  /\ alarm' = 0
  /\ pc' = "loop_while"
  /\ UNCHANGED <<callbacks, components, flag_done, cur, raised, reglog, calls>>
  /\ UNCHANGED qvars
  /\ UNCHANGED xvars
  /\ UNCHANGED fvars

\* The signal handlers installed by _daemonize: each schedules the event of
\* its signal at the head of self.queue.events.
_hnd_signal_hup_timed(self, id) ==
  schedule_at(self, 0, EVENT_SIGNAL_HUP, None, id).self

_hnd_signal_hup(self, id) == schedule_next(self, EVENT_SIGNAL_HUP, None, id)

_hnd_signal_usr1_tail(self, id) == schedule(self, EVENT_SIGNAL_USR1, None, id)

_hnd_signal_usr1(self, id) == schedule_next(self, EVENT_SIGNAL_USR1, None, id)

_hnd_signal_usr2(self, id) == schedule_next(self, EVENT_SIGNAL_USR2, None, id)

\* Where _event_loop can be when a signal is delivered or the process is
\* interrupted: the handlers are installed before the loop is entered.
InLoop ==
  pc \in {"loop_while", "loop_next", "loop_for", "loop_wait", "wait", "armed", "pause"}

\* A signal is delivered and its handler has run, leaving self.queue as given.
\* signal.pause() returns once a handler has run, and wait() clears the alarm.
Delivered(event, self) ==
  /\ InLoop
  /\ Len(siglog) < MaxSignals
  /\ nextid < MaxEntries
  /\ queue' = self
  /\ nextid' = nextid + 1
  /\ log' = Append(log, Logged("schedule_next", 0, event, None, "none"))
  /\ siglog' = Append(siglog, [id |-> nextid + 1, event |-> event, pc |-> pc,
                               nret |-> Len(returned)])
  /\ pc' = IF pc = "pause" THEN "loop_while" ELSE pc
  /\ alarm' = IF pc = "pause" THEN 0 ELSE alarm
  /\ UNCHANGED <<now, last, returned, callbacks, components, flag_done, cur, raised,
                 reglog, calls, excarg, reported, snapshot, raised_at>>
  /\ UNCHANGED fvars

SigHup == Delivered(EVENT_SIGNAL_HUP, _hnd_signal_hup(queue, nextid + 1))

SigUsr1 == Delivered(EVENT_SIGNAL_USR1, _hnd_signal_usr1(queue, nextid + 1))

SigUsr2 == Delivered(EVENT_SIGNAL_USR2, _hnd_signal_usr2(queue, nextid + 1))

\* SIGINT is delivered: KeyboardInterrupt is raised where the loop is.
Interrupt ==
  /\ InLoop
  /\ pc' = "error"
  /\ raised' = "KeyboardInterrupt"
  /\ raised_at' = pc
  /\ UNCHANGED <<callbacks, components, flag_done, cur, alarm, reglog, calls,
                 excarg, reported, snapshot, siglog>>
  /\ UNCHANGED qvars
  /\ UNCHANGED fvars

Error(msg, arg, trcb) == [msg |-> msg, arg |-> arg, trcb |-> trcb]

\* A _sub_stage_process that reports the interrupt as any other exception.
_sub_stage_process_noisy(exc, arg) ==
  IF exc = "CalledProcessError"
  THEN <<Error("System command error", arg, FALSE)>>
  ELSE IF exc \in {"ZenDaemonException", "ZenDaemonComponentException"}
  THEN <<Error("ZenAppProcessException", arg, FALSE)>>
  ELSE <<Error("Exception", arg, TRUE)>>

\* The except clauses of _sub_stage_process: the self.error() calls made for
\* an exception that left _event_loop.  ZenDaemonException and
\* ZenDaemonComponentException are subclasses of ZenAppProcessException.
_sub_stage_process(exc, arg) ==
  IF exc = "KeyboardInterrupt"
  THEN <<>>
  ELSE IF exc = "CalledProcessError"
  THEN <<Error("System command error", arg, FALSE)>>
  ELSE IF exc \in {"ZenDaemonException", "ZenDaemonComponentException"}
  THEN <<Error("ZenAppProcessException", arg, FALSE)>>
  ELSE <<Error("Exception", arg, TRUE)>>

\* An exception has left _event_loop: the matching except clause of
\* _sub_stage_process runs, and _sub_stage_process returns.
SubStageExcept ==
  /\ pc = "error"
  /\ reported' = reported \o _sub_stage_process(raised, excarg)
  /\ pc' = "finished"
  /\ UNCHANGED <<callbacks, components, flag_done, cur, alarm, raised, reglog, calls,
                 excarg, snapshot, siglog, raised_at>>
  /\ UNCHANGED qvars
  /\ UNCHANGED fvars

\* The wall clock advances while the engine runs.
ClockTick ==
  /\ pc \notin {"_init_callbacks", "_init_components"}
  /\ ~InSchedule
  /\ now < MaxTime
  /\ now' = now + 1
  /\ UNCHANGED <<queue, nextid, log, last, returned>>
  /\ UNCHANGED evars

Next ==
  \/ InitCallbacks
  \/ InitComponent
  \/ InitComponentsDone
  \/ InitSchedule
  \/ Run
  \/ LoopEnter
  \/ LoopWhile
  \/ LoopNext
  \/ LoopHandler
  \/ LoopForEnd
  \/ LoopWait
  \/ Wakeup
  \/ ClockTick

Spec == Init /\ [][Next]_vars

\* The daemon at work: an engine built with at most MaxDaemonComponents
\* components and with initial events without payload given as 'schedule' and
\* 'schedule_at', whose handlers may also raise and register callbacks, and
\* whose process receives signals.
DaemonInitComponent ==
  /\ Len(components) < MaxDaemonComponents
  /\ InitComponent

DaemonInitSchedule ==
  /\ InitSchedule
  /\ pc' \in {"schedule", "schedule_at"}
  /\ log'[nextid'].args = None

DaemonNext ==
  \/ InitCallbacks
  \/ DaemonInitComponent
  \/ InitComponentsDone
  \/ DaemonInitSchedule
  \/ Run
  \/ LoopEnter
  \/ LoopWhile
  \/ LoopNext
  \/ LoopHandler
  \/ LoopHandlerRaises
  \/ LoopHandlerRegisters
  \/ LoopForEnd
  \/ LoopWait
  \/ Wakeup
  \/ SigHup
  \/ SigUsr1
  \/ SigUsr2
  \/ Interrupt
  \/ SubStageExcept
  \/ ClockTick

SpecDaemon == Init /\ [][DaemonNext]_vars

\* The idle loop with a clock of TicksPerSecond ticks a second: the daemon
\* with handlers that return, a signal handler that may run at any point, and
\* initial events other than log_statistics (whose interval is in seconds).
IdleInitSchedule ==
  /\ DaemonInitSchedule
  /\ log'[nextid'].event # EVENT_LOG_STATISTICS

IdleLoopWait == LoopWaitStep(TicksPerSecond)

IdleNext ==
  \/ InitCallbacks
  \/ DaemonInitComponent
  \/ InitComponentsDone
  \/ IdleInitSchedule
  \/ Run
  \/ LoopEnter
  \/ LoopWhile
  \/ LoopNext
  \/ LoopHandler
  \/ LoopForEnd
  \/ IdleLoopWait
  \/ Wakeup
  \/ SigUsr1
  \/ ClockTick

SpecIdle == Init /\ [][IdleNext]_vars

\* The loop left to itself: up to MaxEntries initial events with or without
\* payload, other than log_statistics (whose handler schedules), handlers
\* that return without scheduling, no signal and no interrupt.  Once run()
\* has got to the loop the interpreter goes on executing it, and the clock
\* goes on: both are weakly fair.
LiveInitSchedule ==
  /\ InitScheduleUpTo(MaxEntries)
  /\ pc' \in {"schedule", "schedule_at", "init_error"}
  /\ log'[nextid'].event # EVENT_LOG_STATISTICS

LiveLoopHandler ==
  /\ LoopHandler
  /\ nextid' = nextid

LiveInit ==
  \/ InitCallbacks
  \/ DaemonInitComponent
  \/ InitComponentsDone
  \/ LiveInitSchedule
  \/ Run

LiveLoop ==
  \/ LoopEnter
  \/ LoopWhile
  \/ LiveLoopHandler
  \/ LoopForEnd
  \/ LoopWait
  \/ Wakeup
  \/ SubStageExcept

LiveNext ==
  \/ LiveInit
  \/ LoopNext
  \/ LiveLoop
  \/ ClockTick

\* The step that takes the loop on from the call of self.queue.next(): the
\* call is made whenever the loop is there, and no other step moves the loop
\* from there.
LoopNextDone ==
  /\ pc = "loop_next"
  /\ pc' \in {"loop_while", "loop_for", "loop_wait", "error"}

SpecLive ==
  /\ Init /\ [][LiveNext]_vars
  /\ WF_vars(LiveLoop) /\ WF_pc(LoopNextDone) /\ WF_vars(ClockTick)

\* The daemon given any string as an event name: the initial events, without
\* payload, are named "default" or with the empty string.
ScheduledNames == {"", "default"}

NamesInitSchedule ==
  /\ InitScheduleFrom(MaxInitial, ScheduledNames)
  /\ pc' \in {"schedule", "schedule_at"}
  /\ log'[nextid'].args = None

NamesNext ==
  \/ InitCallbacks
  \/ DaemonInitComponent
  \/ InitComponentsDone
  \/ NamesInitSchedule
  \/ Run
  \/ LoopEnter
  \/ LoopWhile
  \/ LoopNext
  \/ LoopHandler
  \/ LoopForEnd
  \/ LoopWait
  \/ Wakeup
  \/ SubStageExcept
  \/ ClockTick

SpecNames == Init /\ [][NamesNext]_vars

\* The idle sleep statement by statement, signals being delivered between
\* any two of them.
\* wait_time = self.queue.wait() and "if wait_time > 0".  With both stores
\* empty, events_at[0] raises IndexError.
SleepQueueWait ==
  /\ pc = "loop_wait"
  /\ IF Len(queue.events) = 0 /\ Len(queue.events_at) = 0
     THEN /\ pc' = "error"
          /\ raised' = "IndexError"
          /\ raised_at' = "loop_wait"
          /\ UNCHANGED wtime
     ELSE /\ UNCHANGED <<raised, raised_at>>
          /\ IF wait(queue, now) > 0
             THEN /\ wtime' = wait(queue, now)
                  /\ pc' = "wait"
             ELSE /\ pc' = "loop_while"
                  /\ UNCHANGED wtime
  /\ UNCHANGED <<callbacks, components, flag_done, cur, alarm, reglog, calls,
                 excarg, reported, snapshot, siglog>>
  /\ UNCHANGED qvars
  /\ UNCHANGED <<config, rundir, fcall, sender, stats, scall, seen, os, dcall, dlog, cobj, snap>>

\* self.wait(wait_time) up to signal.alarm(period): the alarm is set.
SleepAlarm ==
  /\ pc = "wait"
  /\ IF ZenDaemon_wait(wtime, now, 1) > 0
     THEN /\ alarm' = ZenDaemon_wait(wtime, now, 1)
          /\ pc' = "armed"
     ELSE /\ pc' = "loop_while"
          /\ UNCHANGED alarm
  /\ wtime' = 0
  /\ UNCHANGED <<callbacks, components, flag_done, cur, raised, reglog, calls>>
  /\ UNCHANGED qvars
  /\ UNCHANGED xvars
  /\ UNCHANGED <<config, rundir, fcall, sender, stats, scall, seen, os, dcall, dlog, cobj, snap>>

\* signal.pause() is called: the process sleeps until a signal handler runs.
SleepPause ==
  /\ pc = "armed"
  /\ pc' = "pause"
  /\ UNCHANGED <<callbacks, components, flag_done, cur, alarm, raised, reglog, calls>>
  /\ UNCHANGED qvars
  /\ UNCHANGED xvars
  /\ UNCHANGED fvars

\* SIGALRM goes off before signal.pause() is called: _hnd_signal_wakeup runs
\* and returns to where wait() was.
SleepAlarmEarly ==
  /\ pc = "armed"
  /\ now >= alarm
  /\ alarm # 0
  /\ alarm' = 0
  /\ UNCHANGED <<pc, callbacks, components, flag_done, cur, raised, reglog, calls>>
  /\ UNCHANGED qvars
  /\ UNCHANGED xvars
  /\ UNCHANGED fvars

\* SIGALRM goes off during signal.pause().
SleepWakeup ==
  /\ alarm # 0
  /\ Wakeup

SleepNext ==
  \/ InitCallbacks
  \/ DaemonInitComponent
  \/ InitComponentsDone
  \/ IdleInitSchedule
  \/ Run
  \/ LoopEnter
  \/ LoopWhile
  \/ LoopNext
  \/ LoopHandler
  \/ LoopForEnd
  \/ SleepQueueWait
  \/ SleepAlarm
  \/ SleepPause
  \/ SleepAlarmEarly
  \/ SleepWakeup
  \/ SigHup
  \/ SigUsr1
  \/ SigUsr2
  \/ ClockTick

SpecSleep == Init /\ [][SleepNext]_vars

\* The daemon whose handlers and whose caller may call done().
DoneCall(at, nret) == [pc |-> at, nret |-> nret]

\* A component's handler calls daemon.done() and returns.
LoopHandlerDone ==
  /\ pc = "loop_for"
  /\ cur.idx < Len(callbacks[cur.event])
  /\ NextHandler.comp # 0
  /\ \E flag \in {FLAG_CONTINUE, FLAG_STOP} :
       HandlerReturn(NextHandler, Outcome(flag, None, "none", None),
                     ZenDaemon_done(flag_done), Append(dlog, DoneCall(pc, Len(returned))))

\* done() is called on the daemon before run() gets to _event_loop.
DoneBeforeLoop ==
  /\ pc = "loop_enter"
  /\ dlog = <<>>
  /\ flag_done' = ZenDaemon_done(flag_done)
  /\ dlog' = Append(dlog, DoneCall(pc, Len(returned)))
  /\ UNCHANGED <<pc, callbacks, components, cur, alarm, raised, reglog, calls>>
  /\ UNCHANGED qvars
  /\ UNCHANGED xvars
  /\ UNCHANGED <<config, rundir, fcall, sender, stats, scall, seen, os, dcall, wtime, cobj, snap>>

DoneNext ==
  \/ InitCallbacks
  \/ DaemonInitComponent
  \/ InitComponentsDone
  \/ IdleInitSchedule
  \/ Run
  \/ DoneBeforeLoop
  \/ LoopEnter
  \/ LoopWhile
  \/ LoopNext
  \/ LoopHandler
  \/ LoopHandlerDone
  \/ LoopForEnd
  \/ LoopWait
  \/ Wakeup
  \/ SubStageExcept
  \/ ClockTick

SpecDone == Init /\ [][DoneNext]_vars

\* The component maps of state() and statistics(): a daemon built with up to
\* MaxComponents components of the classes ComponentClasses, whose counters
\* the components raise.
ComponentClasses == {"DemoDaemonComponent", "OtherComponent"}

SnapInit ==
  /\ pc = "_init_components"
  /\ EInit
  /\ queue = EventQueueManager
  /\ now = 0
  /\ nextid = 0
  /\ log = <<>>
  /\ last = Call("init", 0, Result(None, None, 0), "none")
  /\ returned = <<>>
  /\ config = DefaultConfig
  /\ rundir = <<>>
  /\ FInit

SnapFrame ==
  /\ UNCHANGED <<queue, nextid, log, last, returned>>
  /\ UNCHANGED <<callbacks, flag_done, cur, alarm, raised, reglog, calls>>
  /\ UNCHANGED xvars
  /\ UNCHANGED <<config, rundir, fcall, sender, stats, scall, seen, os, dcall, wtime, dlog>>

\* _init_components: self.components.append(component), for a component
\* made at the time of the call.
SnapInitComponent ==
  /\ pc = "_init_components"
  /\ Len(components) < MaxComponents
  /\ \E class \in ComponentClasses :
       /\ components' = Append(components, Len(components) + 1)
       /\ cobj' = Append(cobj, [class |-> class, self |-> ZenDaemonComponent(now)])
  /\ UNCHANGED <<pc, now, snap>>
  /\ SnapFrame

\* The constructor returns.
SnapConstructed ==
  /\ pc = "_init_components"
  /\ pc' = "constructed"
  /\ UNCHANGED <<now, components, cobj, snap>>
  /\ SnapFrame

\* A component counts an event: self.inc_statistic('cnt_default').
SnapIncStatistic ==
  /\ pc = "constructed"
  /\ \E c \in 1..Len(components) :
       /\ IF "cnt_default" \in DOMAIN cobj[c].self.statistics_cur
          THEN cobj[c].self.statistics_cur["cnt_default"].leaf < MaxCount
          ELSE TRUE
       /\ cobj' = [cobj EXCEPT ![c].self = inc_statistic(@, "cnt_default", 1)]
  /\ UNCHANGED <<pc, now, components, snap>>
  /\ SnapFrame

\* self._get_state()
SnapGetState ==
  /\ pc = "constructed"
  /\ snap' = SnapCall("_get_state", _get_state(components, cobj, <<>>), "none")
  /\ UNCHANGED <<pc, now, components, cobj>>
  /\ SnapFrame

\* self._get_statistics()
SnapGetStatistics ==
  /\ pc = "constructed"
  /\ LET r == _get_statistics(components, cobj, <<>>, now)
     IN  /\ cobj' = r.cobj
         /\ snap' = SnapCall("_get_statistics", r.components, r.exc)
  /\ UNCHANGED <<pc, now, components>>
  /\ SnapFrame

SnapTick ==
  /\ pc = "constructed"
  /\ now < MaxTime
  /\ now' = now + 1
  /\ UNCHANGED <<pc, components, cobj, snap>>
  /\ SnapFrame

SnapNext ==
  \/ SnapInitComponent
  \/ SnapConstructed
  \/ SnapIncStatistic
  \/ SnapGetState
  \/ SnapGetStatistics
  \/ SnapTick

SpecSnapshot == SnapInit /\ [][SnapNext]_vars

\* ------------------------------------------ file names and send_signal
\* The process ids, the --pid-file and --state-file values and the runlog
\* directories the daemon is started with.
Pids == {42, 123456}

PidFileNames ==
  { os_path_join(RunDir, <<"d", ".", "p", "i", "d">>),
    os_path_join(RunDir, <<"d", ".", "l", "c", "k">>) }

StateFileNames ==
  { os_path_join(RunDir, <<"d", ".", "s", "t", "a", "t", "e">>),
    os_path_join(RunDir, <<"d", ".", "d", "a", "t">>) }

RunlogDirs == { <<"/", "r", "/", "l", "o", "g">>, <<"/", "r", "/", "l", "o", "g", "/">> }

\* The files there may be in the run directory.
FileNames ==
  { <<"d", ".", "p", "i", "d">>,
    <<"d", ".", "0", "0", "0", "4", "2", ".", "p", "i", "d">>,
    <<"d", ".", "0", "0", "0", "0", "7", ".", "p", "i", "d">>,
    <<"d", ".", "1", "2", "3", "4", "5", "6", ".", "p", "i", "d">>,
    <<"d", "x", ".", "p", "i", "d">>,
    <<"d", ".", "s", "t", "a", "t", "e">> }

\* What pyzenkit.daemonizer.read_pid and os.kill come to for a PID file:
\* both succeed, or one of them raises the exception named.
FileStatus ==
  {"alive", "FileNotFoundError", "ValueError", "ProcessLookupError", "PermissionError"}

\* read_pid(pidfn) and os.kill(pid, sign) for the file of that path: a file
\* that is not in the run directory does not exist.
StatusOf(pidfn) ==
  IF \E f \in DOMAIN rundir : os_path_join(RunDir, f) = pidfn
  THEN rundir[CHOOSE f \in DOMAIN rundir : os_path_join(RunDir, f) = pidfn]
  ELSE "FileNotFoundError"

FilesInit ==
  /\ pc = "files"
  /\ EInit
  /\ queue = EventQueueManager
  /\ now = 0
  /\ nextid = 0
  /\ log = <<>>
  /\ last = Call("init", 0, Result(None, None, 0), "none")
  /\ returned = <<>>
  /\ FInit
  /\ \E paralel \in BOOLEAN, pid \in Pids, pid_file \in PidFileNames,
        state_file \in StateFileNames, runlog_dir \in RunlogDirs :
       config = Config(paralel, pid, pid_file, state_file, runlog_dir)
  /\ \E files \in SUBSET FileNames :
       /\ Cardinality(files) <= MaxFiles
       /\ rundir \in [files -> FileStatus]

\* The file-name methods and send_signal leave the queue and the engine as
\* they are.
FilesFrame ==
  /\ pc = "files"
  /\ UNCHANGED qvars
  /\ UNCHANGED <<pc, callbacks, components, flag_done, cur, alarm, raised, reglog, calls>>
  /\ UNCHANGED xvars
  /\ UNCHANGED svars
  /\ UNCHANGED dvars
  /\ UNCHANGED <<wtime, dlog, cobj, snap>>

GetFnState ==
  /\ fcall' = FileCall("_get_fn_state", FALSE, _get_fn_state(config))
  /\ UNCHANGED <<config, rundir, sender>>
  /\ FilesFrame

GetFnPidfile ==
  /\ fcall' = FileCall("_get_fn_pidfile", FALSE, _get_fn_pidfile(config))
  /\ UNCHANGED <<config, rundir, sender>>
  /\ FilesFrame

GetFnRunlog ==
  /\ fcall' = FileCall("_get_fn_runlog", FALSE, _get_fn_runlog(config))
  /\ UNCHANGED <<config, rundir, sender>>
  /\ FilesFrame

PidfilesList ==
  \E reverse \in BOOLEAN :
    /\ fcall' = FileCall("_pidfiles_list", reverse,
                         _pidfiles_list(config, DOMAIN rundir, reverse))
    /\ UNCHANGED <<config, rundir, sender>>
    /\ FilesFrame

\* send_signal up to the for loop: the list of PID files.
SendSignalBegin ==
  /\ sender.pc = "idle"
  /\ sender' = Sender("for",
                      IF ~config.paralel THEN <<_get_fn_pidfile(config)>>
                      ELSE _pidfiles_list(config, DOMAIN rundir, FALSE),
                      0, <<>>, <<>>)
  /\ UNCHANGED <<config, rundir, fcall>>
  /\ FilesFrame

Printed(msg, arg) == [msg |-> msg, arg |-> arg]

\* One pass of "for pidfn in pidfl": read_pid, print and os.kill.  The try
\* statement is around the for loop: an exception ends the loop, the except
\* clause prints its message and send_signal returns.
send_signal_for(snd, pidfn, status, cfg) ==
  IF status = "alive"
  THEN Sender("for", snd.pidfl, snd.i + 1, Append(snd.sent, pidfn),
              Append(snd.printed, Printed("Sending signal", pidfn)))
  ELSE IF status = "FileNotFoundError"
  THEN Sender("done", snd.pidfl, snd.i, snd.sent,
              Append(snd.printed, Printed("PID file does not exist", cfg.pid_file)))
  ELSE IF status = "ValueError"
  THEN Sender("done", snd.pidfl, snd.i, snd.sent,
              Append(snd.printed, Printed("Malformed PID file", cfg.pid_file)))
  ELSE IF status = "ProcessLookupError"
  THEN Sender("done", snd.pidfl, snd.i, snd.sent,
              snd.printed \o << Printed("Sending signal", pidfn),
                                Printed("Process does not exist", pidfn) >>)
  ELSE Sender("done", snd.pidfl, snd.i, snd.sent,
              snd.printed \o << Printed("Sending signal", pidfn),
                                Printed("Insufficient permissions", pidfn) >>)

SendSignalFile ==
  /\ sender.pc = "for"
  /\ sender.i < Len(sender.pidfl)
  /\ LET pidfn == sender.pidfl[sender.i + 1]
     IN  sender' = send_signal_for(sender, pidfn, StatusOf(pidfn), config)
  /\ UNCHANGED <<config, rundir, fcall>>
  /\ FilesFrame

\* The list is exhausted: send_signal returns.
SendSignalEnd ==
  /\ sender.pc = "for"
  /\ sender.i >= Len(sender.pidfl)
  /\ sender' = [sender EXCEPT !.pc = "done"]
  /\ UNCHANGED <<config, rundir, fcall>>
  /\ FilesFrame

FilesNext ==
  \/ GetFnState
  \/ GetFnPidfile
  \/ GetFnRunlog
  \/ PidfilesList
  \/ SendSignalBegin
  \/ SendSignalFile
  \/ SendSignalEnd

SpecFiles == FilesInit /\ [][FilesNext]_vars

\* ------------------------------------------- a component's statistics
\* The counters of a dict by value: the path of each counter -> its value.
Counters(d, objs) ==
  LET top == {key \in DOMAIN d : ~IsDict(d[key])}
      sub == {key \in DOMAIN d : IsDict(d[key])}
      paths == {<<key>> : key \in top}
               \cup UNION {{<<key, k>> : k \in DOMAIN objs[d[key].ref]} : key \in sub}
  IN  [p \in paths |-> IF Len(p) = 1 THEN d[p[1]].leaf
                       ELSE objs[d[p[1]].ref][p[2]].leaf]

StatsInit ==
  /\ pc = "stats"
  /\ EInit
  /\ queue = EventQueueManager
  /\ now = 0
  /\ nextid = 0
  /\ log = <<>>
  /\ last = Call("init", 0, Result(None, None, 0), "none")
  /\ returned = <<>>
  /\ config = DefaultConfig
  /\ rundir = <<>>
  /\ FInit

\* The calls on a component's statistics leave the queue and the engine as
\* they are.
StatsFrame ==
  /\ pc = "stats"
  /\ UNCHANGED <<queue, nextid, log, last, returned>>
  /\ UNCHANGED <<pc, callbacks, components, flag_done, cur, alarm, raised, reglog, calls>>
  /\ UNCHANGED xvars
  /\ UNCHANGED <<config, rundir, fcall, sender>>
  /\ UNCHANGED dvars
  /\ UNCHANGED <<wtime, dlog, cobj, snap>>

\* self.inc_statistic('cnt_default', increment)
IncStatistic ==
  \E increment \in {0, 1} :
    /\ \A p \in DOMAIN Counters(stats.statistics_cur, stats.objs) :
         Counters(stats.statistics_cur, stats.objs)[p] < MaxCount
    /\ stats' = inc_statistic(stats, "cnt_default", increment)
    /\ scall' = StatsCall("inc_statistic", <<>>, "none", seen)
    /\ UNCHANGED <<now, seen>>
    /\ StatsFrame

\* The component raises the counter 'n' of its sub-tree 'sub'.
IncNested ==
  \E increment \in {0, 1} :
    /\ \A p \in DOMAIN Counters(stats.statistics_cur, stats.objs) :
         Counters(stats.statistics_cur, stats.objs)[p] < MaxCount
    /\ stats' = inc_nested(stats, "sub", "n", increment)
    /\ scall' = StatsCall("inc_nested", <<>>, "none", seen)
    /\ UNCHANGED <<now, seen>>
    /\ StatsFrame

\* component.get_statistics()
GetStatistics ==
  LET r == get_statistics(stats, now)
  IN  /\ stats' = r.self
      /\ scall' = StatsCall("get_statistics", r.result, r.exc, seen)
      /\ seen' = IF r.exc = "none" THEN Counters(stats.statistics_cur, stats.objs)
                  ELSE seen
      /\ UNCHANGED now
      /\ StatsFrame

StatsTick ==
  /\ now < MaxTime
  /\ now' = now + 1
  /\ scall' = StatsCall("tick", <<>>, "none", seen)
  /\ UNCHANGED <<stats, seen>>
  /\ StatsFrame

StatsNext ==
  \/ IncStatistic
  \/ IncNested
  \/ GetStatistics
  \/ StatsTick

SpecStats == StatsInit /\ [][StatsNext]_vars

\* ------------------------------------------------ PID files, daemonization
\* The paths PID files are written to and read from: two in the run
\* directory, one in a directory that does not exist.
PidPaths ==
  { os_path_join(RunDir, <<"d", ".", "p", "i", "d">>),
    os_path_join(RunDir, <<"d", ".", "l", "c", "k">>),
    <<"/", "x", "/", "d", ".", "p", "i", "d">> }

\* The values write_pid is called with.
PidArgs ==
  {IntValue(7), IntValue(42), IntValue(123456), StrValue(<<"1", "2", "3">>)}

\* What a file found in the run directory may hold.
FileContents == { <<"7", "\n">>, <<"x", "\n">>, <<>> }

PidInit ==
  /\ pc = "pid"
  /\ EInit
  /\ queue = EventQueueManager
  /\ now = 0
  /\ nextid = 0
  /\ log = <<>>
  /\ last = Call("init", 0, Result(None, None, 0), "none")
  /\ returned = <<>>
  /\ rundir = <<>>
  /\ fcall = FileCall("none", FALSE, <<>>)
  /\ sender = Sender("idle", <<>>, 0, <<>>, <<>>)
  /\ stats = ZenDaemonComponent(0)
  /\ scall = StatsCall("none", <<>>, "none", <<>>)
  /\ seen = <<>>
  /\ \E paralel \in BOOLEAN, pid \in Pids, pid_file \in PidPaths :
       config = Config(paralel, pid, pid_file,
                       os_path_join(RunDir, Name \o <<".">> \o StateExt), RunDir)
  /\ \E present \in SUBSET {f \in PidPaths : os_path_dirname(f) = RunDir} :
       \E files \in [present -> FileContents] :
         os = OS({<<"/">>, RunDir}, files, <<"/">>)
  /\ dcall = DaemonizerCall("none", <<>>, IntValue(0), "none", 0)
  /\ wtime = 0
  /\ dlog = <<>>
  /\ cobj = <<>>
  /\ snap = SnapCall("none", <<>>, "none")

\* The calls on the daemonizer leave the queue, the engine, the configuration
\* and the statistics as they are.
PidFrame ==
  /\ pc = "pid"
  /\ UNCHANGED qvars
  /\ UNCHANGED <<pc, callbacks, components, flag_done, cur, alarm, raised, reglog, calls>>
  /\ UNCHANGED xvars
  /\ UNCHANGED <<config, rundir, fcall, sender>>
  /\ UNCHANGED svars
  /\ UNCHANGED <<wtime, dlog, cobj, snap>>

\* pyzenkit.daemonizer.write_pid(pid_file, pid)
WritePid ==
  \E pid_file \in PidPaths, pid \in PidArgs :
    LET r == write_pid(os, pid_file, pid)
    IN  /\ os' = r.os
        /\ dcall' = DaemonizerCall("write_pid", pid_file, pid, r.exc, 0)
        /\ PidFrame

\* pyzenkit.daemonizer.read_pid(pid_file)
ReadPid ==
  \E pid_file \in PidPaths :
    LET r == read_pid(os, pid_file)
    IN  /\ dcall' = DaemonizerCall("read_pid", pid_file, IntValue(0), r.exc, r.val)
        /\ UNCHANGED os
        /\ PidFrame

\* os.unlink(pid_file) of a file there is.
Unlink ==
  \E pid_file \in DOMAIN os.files :
    /\ os' = [os EXCEPT !.files = [f \in DOMAIN @ \ {pid_file} |-> @[f]]]
    /\ dcall' = DaemonizerCall("unlink", pid_file, IntValue(0), "none", 0)
    /\ PidFrame

\* self._daemonize(), with or without the no-daemon configuration.
Daemonize ==
  \E work_dir \in os.dirs, nodaemon \in BOOLEAN :
    LET r == _daemonize(os, config, nodaemon, work_dir)
    IN  /\ os.forks = 0   \* run() daemonizes once
        /\ os' = r.os
        /\ dcall' = [DaemonizerCall("_daemonize", r.pid_file, IntValue(r.pid), r.exc, 0)
                     EXCEPT !.work_dir = work_dir, !.nodaemon = nodaemon]
        /\ PidFrame

PidNext ==
  \/ WritePid
  \/ ReadPid
  \/ Unlink
  \/ Daemonize

SpecPid == PidInit /\ [][PidNext]_vars

\* ------------------------------------------------- properties of the queue
RootDue(self, time_time) ==
  Len(self.events_at) > 0 /\ self.events_at[1].tstamp <= time_time

FifoIds(self) == {self.events[i].id : i \in 1..Len(self.events)}
TimedIds(self) == {self.events_at[i].id : i \in 1..Len(self.events_at)}

IsTimed(id) == log[id].kind = "timed"

\* The last call was next() and it returned entry id with the contents the
\* entry was scheduled with.
Returns(call, id) ==
  /\ call.op = "next"
  /\ call.exc = "none"
  /\ call.id = id
  /\ call.event = log[id].event
  /\ call.args = log[id].args

\* The due times of all timed entries scheduled so far are pairwise distinct.
DistinctDue ==
  \A i, j \in 1..Len(log) :
    (i # j /\ IsTimed(i) /\ IsTimed(j)) => log[i].tstamp # log[j].tstamp

\* C1: every next() call follows the four-way policy: a due heap root is
\* popped and returned (the FIFO is left alone); otherwise the FIFO head is
\* popped and returned; otherwise, with both stores empty,
\* QueueEmptyException is raised; otherwise (None, None) is returned and both
\* stores are unchanged.
C1_NextPolicy ==
  [][last'.op = "next" =>
       IF RootDue(queue, now)
       THEN /\ Returns(last', queue.events_at[1].id)
            /\ TimedIds(queue') = TimedIds(queue) \ {queue.events_at[1].id}
            /\ Len(queue'.events_at) = Len(queue.events_at) - 1
            /\ queue'.events = queue.events
       ELSE IF Len(queue.events) > 0
       THEN /\ Returns(last', queue.events[1].id)
            /\ queue'.events = Tail(queue.events)
            /\ queue'.events_at = queue.events_at
       ELSE IF Len(queue.events_at) = 0
       THEN /\ last'.exc = "QueueEmptyException"
            /\ queue' = queue
       ELSE /\ last'.exc = "none"
            /\ last'.id = 0 /\ last'.event = None /\ last'.args = None
            /\ queue' = queue
    ]_vars

\* Only schedule() has been called so far: no front insertion, no timed entry.
OnlySchedule == \A i \in 1..Len(log) : log[i].kind = "schedule"

\* C2: when only schedule() is used, next() returns the entries in the order
\* they were scheduled (the k-th value returned is the k-th scheduled), and a
\* next() raises QueueEmptyException exactly when all of them were returned.
C2_FifoOrdering ==
  OnlySchedule =>
    /\ \A i \in 1..Len(returned) : returned[i] = i
    /\ last.op = "next" =>
         \/ Len(returned) > 0 /\ Returns(last, Len(returned))
         \/ /\ last.exc = "QueueEmptyException"
            /\ last.id = 0
            /\ Len(returned) = nextid

\* C2's case: at least two entries were scheduled, all came back, and the
\* following next() raised QueueEmptyException.
C2_Witness ==
  /\ OnlySchedule
  /\ nextid >= 2
  /\ Len(returned) = nextid
  /\ last.op = "next"
  /\ last.exc = "QueueEmptyException"

\* C3 as stated: a next() call that directly follows schedule_next(e) on a
\* queue with an existing FIFO returns e.
C3_FrontInsertionOriginal ==
  [][(last.op = "schedule_next" /\ Len(queue.events) >= 2 /\ last'.op = "next")
       => Returns(last', last.id)]_vars

\* The FIFO entry that goes first: the front insertion made last, and with no
\* front insertion pending the oldest schedule() entry.
FrontMost(self) ==
  LET fronts == {id \in FifoIds(self) : log[id].kind = "schedule_next"}
  IN  IF fronts # {}
      THEN CHOOSE id \in fronts : \A other \in fronts : other <= id
      ELSE CHOOSE id \in FifoIds(self) : \A other \in FifoIds(self) : id <= other

\* C3, amended: schedule_next(e) makes e the head of the FIFO, so a next()
\* call made when no timed root is due returns the front insertion made last
\* (a due timed root is returned before it); when next() returns a FIFO
\* entry, no front insertion made after that entry was scheduled is still
\* pending, so front insertions come back in reverse arrival order and ahead
\* of all earlier FIFO entries.
C3_FrontInsertion ==
  [][last'.op = "next" =>
       /\ (Len(queue.events) > 0 /\ ~RootDue(queue, now))
            => Returns(last', FrontMost(queue))
       /\ (last.op = "schedule_next" /\ ~RootDue(queue, now))
            => Returns(last', last.id)
       /\ (last'.id # 0 /\ ~IsTimed(last'.id))
            => \A id \in FifoIds(queue) :
                 log[id].kind = "schedule_next" => id <= last'.id
    ]_vars

\* C3's case: entry 1 was scheduled, entries 2 and 3 were inserted at the
\* front before either was dequeued, and next() returned 3, then 2, with
\* entry 1 still pending.
C3_Witness ==
  /\ Len(log) >= 3
  /\ log[1].kind = "schedule"
  /\ log[2].kind = "schedule_next"
  /\ log[3].kind = "schedule_next"
  /\ returned = <<3, 2>>
  /\ FifoIds(queue) = {1}
  /\ last.op = "next"

\* C4 as stated: a timed entry is not returned while the clock is below its
\* due time, and a next() call made while it is pending and the clock has
\* reached its due time returns it.
C4_TimeGateOriginal ==
  [][last'.op = "next" =>
       /\ (last'.id # 0 /\ IsTimed(last'.id)) => log[last'.id].tstamp <= now
       /\ \A i \in 1..Len(queue.events_at) :
            queue.events_at[i].tstamp <= now
              => Returns(last', queue.events_at[i].id)
    ]_vars

\* C4, amended: a timed entry is never returned by a next() call made while
\* the clock is below its due time; when the due times of the timed entries
\* are pairwise distinct, a next() call made once the clock has reached its
\* due time returns it unless a timed entry with an earlier due time is
\* pending (which is returned first).
C4_TimeGate ==
  [][last'.op = "next" =>
       /\ (last'.id # 0 /\ IsTimed(last'.id)) => log[last'.id].tstamp <= now
       /\ \A i \in 1..Len(queue.events_at) :
            ( /\ DistinctDue
              /\ queue.events_at[i].tstamp <= now
              /\ \A j \in 1..Len(queue.events_at) :
                   queue.events_at[j].tstamp >= queue.events_at[i].tstamp )
              => Returns(last', queue.events_at[i].id)
    ]_vars

\* C4's case: a timed entry with a due time after the start was returned by
\* a next() call at its due time, although the FIFO held an entry, and an
\* earlier next() call had left it in the heap.
C4_Witness ==
  /\ last.op = "next"
  /\ last.id # 0
  /\ IsTimed(last.id)
  /\ log[last.id].tstamp = now
  /\ now >= 1
  /\ Len(returned) >= 2
  /\ returned[1] < last.id
  /\ Len(queue.events) > 0
  /\ DistinctDue

\* C5: with pairwise distinct due times, next() returns timed entries in
\* ascending due-time order: a timed entry that is returned has a smaller due
\* time than every timed entry still pending, and of two returned timed
\* entries that were pending together the one returned first has the smaller
\* due time.
C5_HeapOrdering ==
  /\ [](DistinctDue =>
          \A i, j \in 1..Len(returned) :
            ( /\ i < j
              /\ IsTimed(returned[i]) /\ IsTimed(returned[j])
              /\ returned[j] < returned[i] )
              => log[returned[i]].tstamp < log[returned[j]].tstamp)
  /\ [][(last'.op = "next" /\ last'.id # 0 /\ IsTimed(last'.id) /\ DistinctDue)
          => \A i \in 1..Len(queue'.events_at) :
               log[last'.id].tstamp < queue'.events_at[i].tstamp]_vars

\* C5's case: three timed entries inserted in descending due-time order were
\* all returned, the last inserted (earliest due) first.
C5_Witness ==
  /\ Len(log) = 3
  /\ \A i \in 1..3 : IsTimed(i)
  /\ log[1].tstamp > log[2].tstamp
  /\ log[2].tstamp > log[3].tstamp
  /\ returned = <<3, 2, 1>>

\* C6: two timed entries with the same due time are returned by next() in
\* the order in which they were inserted.
C6_TieBreak ==
  \A i, j \in 1..Len(returned) :
    ( /\ i < j
      /\ IsTimed(returned[i]) /\ IsTimed(returned[j])
      /\ log[returned[i]].tstamp = log[returned[j]].tstamp )
      => returned[i] < returned[j]

\* C7: every scheduled entry is returned at most once, every entry not yet
\* returned is still pending in exactly one store, and count() is the number
\* of entries scheduled minus the number returned.
C7_ExactlyOnce ==
  /\ \A i, j \in 1..Len(returned) : i # j => returned[i] # returned[j]
  /\ \A id \in 1..nextid :
       \/ (\E i \in 1..Len(returned) : returned[i] = id)
       \/ id \in FifoIds(queue) \cup TimedIds(queue)
  /\ count(queue) = nextid - Len(returned)

\* ------------------------------------------------ properties of the engine
\* The registrations of an event made with prepend = True, and those made
\* with prepend = False, in the order they were made.
Prepended(event) == SelectSeq(reglog, LAMBDA r : r.event = event /\ r.prepend)
Appended(event) == SelectSeq(reglog, LAMBDA r : r.event = event /\ ~r.prepend)

\* The chain the registrations made so far call for: the prepended callbacks,
\* the one registered last first, then the appended ones in registration order.
ExpectedChain(event) ==
  LET pre == Prepended(event)
      app == Appended(event)
  IN  [i \in 1..(Len(pre) + Len(app)) |->
         IF i <= Len(pre) THEN pre[Len(pre) + 1 - i].callback
         ELSE app[i - Len(pre)].callback]

\* The registration of a callback for the event being dispatched.
RegisteredWith(callback, prepend) ==
  \E i \in 1..Len(reglog) :
    /\ reglog[i].event = cur.event
    /\ reglog[i].callback = callback
    /\ reglog[i].prepend = prepend

\* C8: once a handler of the chain has returned a flag other than
\* FLAG_CONTINUE, no further handler is called for that event (only the last
\* call made for an event can have returned STOP), and the loop goes on to
\* its next iteration without an error: it has left the for loop, and the
\* only exception there can be is an interrupt of the process on its way to
\* the next event.
C8_ShortCircuit ==
  /\ \A i \in 1..(Len(calls) - 1) : calls[i].flag = FLAG_CONTINUE
  /\ (Len(calls) > 0 /\ calls[Len(calls)].flag # FLAG_CONTINUE)
       => \/ pc \in {"loop_while", "loop_next"} /\ raised = "none"
          \/ /\ pc \in {"error", "finished"}
             /\ raised = "KeyboardInterrupt"
             /\ raised_at \in {"loop_while", "loop_next"}
             /\ reported = <<>>

\* C8's case: the chain of the event has three handlers, the first returned
\* STOP, no other was called, and the loop is about to ask for the next
\* event, which is pending.
C8_Witness ==
  /\ pc = "loop_next"
  /\ Len(calls) = 1
  /\ Len(callbacks[cur.event]) = 3
  /\ calls[1].flag = FLAG_STOP
  /\ count(queue) > 0

\* C9: the first handler called for an event receives the args stored with
\* the entry that was dequeued, and every later handler receives the args
\* the handler called before it returned.
C9_HandlerPipeline ==
  Len(calls) > 0 =>
    /\ calls[1].args = log[returned[Len(returned)]].args
    /\ \A i \in 1..(Len(calls) - 1) : calls[i + 1].args = calls[i].ret

\* C9's case: three handlers were called for an event scheduled with args
\* "p1"; the first returned "p2" and the second None.
C9_Witness ==
  /\ Len(calls) = 3
  /\ calls[1].args = "p1"
  /\ calls[1].ret = "p2"
  /\ calls[2].args = "p2"
  /\ calls[2].ret = None
  /\ calls[3].args = None

C11_RegistrySnapshot ==
  \A i \in 1..Len(calls) :
    /\ i <= Len(snapshot)
    /\ calls[i].handler = snapshot[i]

\* The loop has dequeued an event that has no entry in self.callbacks.
UnknownDequeued ==
  /\ last.op = "next"
  /\ last.exc = "none"
  /\ Truthy(last.event)
  /\ last.event \notin DOMAIN callbacks

C13_EmptyQueueEndsLoop ==
  (last.op = "next" /\ last.exc = "QueueEmptyException") =>
    /\ flag_done
    /\ last.id = 0
    /\ calls = <<>>
    /\ reported = <<>>
    /\ \/ pc \in {"loop_while", "finished"} /\ raised = "none"
       \/ /\ pc \in {"error", "finished"}
          /\ raised = "KeyboardInterrupt"
          /\ raised_at = "loop_while"

\* C13's case: the loop has dispatched two events, found the queue empty and
\* ended with done set and no exception.
C13_Witness ==
  /\ pc = "finished"
  /\ last.exc = "QueueEmptyException"
  /\ flag_done
  /\ raised = "none"
  /\ Len(returned) = 2
  /\ count(queue) = 0

\* Where the loop is when it sleeps or is between two dispatches.
Idle == {"pause", "loop_while", "loop_next", "loop_wait"}

\* The signal is the last one delivered before the next() call that followed
\* it, and that call has returned an entry.
HoistedBy(i) ==
  /\ siglog[i].pc \in Idle
  /\ Len(returned) > siglog[i].nret
  /\ \A j \in (i + 1)..Len(siglog) : siglog[j].nret # siglog[i].nret

\* C14 as stated: the event processed next after a signal delivered while the
\* loop sleeps or is between two dispatches is the event of the signal.
C14_SignalHoistOriginal ==
  \A i \in 1..Len(siglog) :
    HoistedBy(i) => returned[siglog[i].nret + 1] = siglog[i].id

\* C14, amended: the first next() call made after the signal was delivered
\* returns the event of the signal unless the root of the timed heap is due
\* at that call, in which case it returns that timed entry; it never returns
\* another entry of the FIFO (pending A, B with SIGUSR1 delivered after A
\* was dispatched and no timed entry due: A, signal_usr1, B).
C14_SignalHoist ==
  \A i \in 1..Len(siglog) :
    HoistedBy(i) =>
      LET id == returned[siglog[i].nret + 1]
      IN  /\ id = siglog[i].id \/ (IsTimed(id) /\ log[id].tstamp <= now)
          /\ id = siglog[i].id => log[id].event = siglog[i].event

\* C14's case: A and B were scheduled, SIGUSR1 was delivered between the
\* dispatch of A and the next() call that followed, and the loop dequeued A,
\* signal_usr1, B.
C14_Witness ==
  /\ Len(siglog) = 1
  /\ siglog[1].event = EVENT_SIGNAL_USR1
  /\ siglog[1].pc \in {"loop_while", "loop_next"}
  /\ siglog[1].nret = 1
  /\ Len(returned) = 3
  /\ log[returned[1]].kind = "schedule"
  /\ returned[2] = siglog[1].id
  /\ log[returned[2]].event = EVENT_SIGNAL_USR1
  /\ log[returned[3]].kind = "schedule"

\* C15: a step in which the handler of SIGHUP, SIGUSR1 or SIGUSR2 runs puts
\* one entry, named after the signal and without payload, at the head of the
\* FIFO and leaves the rest of the FIFO, the timed heap, the callbacks, the
\* components and the done flag as they are; a step in which the alarm wakes
\* the loop leaves the queue and all of these as they are.
C15_MinimalHandlers ==
  [][ /\ siglog' # siglog =>
           LET s == siglog'[Len(siglog')]
           IN  /\ s.event \in {EVENT_SIGNAL_HUP, EVENT_SIGNAL_USR1, EVENT_SIGNAL_USR2}
               /\ queue'.events = <<Result(s.event, None, s.id)>> \o queue.events
               /\ queue'.events_at = queue.events_at
               /\ UNCHANGED <<callbacks, components, flag_done, reglog>>
      /\ (pc = "pause" /\ pc' = "loop_while" /\ siglog' = siglog) =>
           UNCHANGED <<queue, nextid, callbacks, components, flag_done, reglog>>
    ]_vars

\* C15's case: SIGHUP was delivered with an entry in the FIFO and one in the
\* timed heap; its entry is at the head of the FIFO.
C15_Witness ==
  /\ Len(siglog) = 1
  /\ siglog[1].event = EVENT_SIGNAL_HUP
  /\ Len(queue.events) = 2
  /\ queue.events[1].id = siglog[1].id
  /\ Len(queue.events_at) = 1

\* C16: the loop does not end on a CalledProcessError raised by a handler
\* while events are pending in the queue.
C16_SubprocessRecoverable ==
  ~(pc = "finished" /\ raised = "CalledProcessError" /\ count(queue) > 0)

\* C17: the loop does not end on a ZenDaemonComponentException raised by a
\* handler while events are pending in the queue.
C17_ComponentErrorNonFatal ==
  ~(pc = "finished" /\ raised = "ZenDaemonComponentException" /\ count(queue) > 0)

\* C18: once KeyboardInterrupt is raised, in a handler or anywhere else in
\* the loop, the loop is left: no handler is called and no entry is dequeued
\* any more, and _sub_stage_process reports no error.
C18_CooperativeCancel ==
  /\ [](raised = "KeyboardInterrupt" =>
          (pc \in {"error", "finished"} /\ reported = <<>>))
  /\ [][raised = "KeyboardInterrupt" =>
          UNCHANGED <<calls, returned, queue, cur, raised, flag_done>>]_vars

\* C18's case: a handler raised KeyboardInterrupt with another handler after
\* it in the chain and an event pending, and _sub_stage_process has returned.
C18_Witness ==
  /\ pc = "finished"
  /\ raised = "KeyboardInterrupt"
  /\ raised_at = "loop_for"
  /\ cur.idx + 1 < Len(callbacks[cur.event])
  /\ count(queue) > 0

\* ------------------------------------ properties of the files and signals
\* send_signal has returned.
Returned == sender.pc = "done"

\* C19: in parallel mode, when send_signal has returned, every PID file of
\* the list whose file can be read and whose process can be signalled has
\* been sent the signal, whatever came of the PID files before it, and for
\* every other PID file of the list a message has been printed.
C19_BroadcastContinues ==
  (Returned /\ config.paralel) =>
    /\ \A i \in 1..Len(sender.pidfl) :
         StatusOf(sender.pidfl[i]) = "alive" =>
           \E k \in 1..Len(sender.sent) : sender.sent[k] = sender.pidfl[i]
    /\ Cardinality({i \in 1..Len(sender.pidfl) : StatusOf(sender.pidfl[i]) # "alive"})
         = Cardinality({k \in 1..Len(sender.printed) :
                          sender.printed[k].msg # "Sending signal"})

\* The place of the last "." of a string (0: it has none).
LastDot(str) ==
  IF \E i \in 1..Len(str) : str[i] = "."
  THEN CHOOSE i \in 1..Len(str) :
         str[i] = "." /\ \A j \in (i + 1)..Len(str) : str[j] # "."
  ELSE 0

\* The path with the PID, zero-padded to five digits, put before its extension.
WithPid(path, pid) ==
  SubSeq(path, 1, LastDot(path) - 1) \o <<".">> \o ZeroPad(Decimal(pid), 5)
    \o SubSeq(path, LastDot(path), Len(path))

\* C20: with the paralel flag set the PID-file, state-file and runlog names
\* are the configured ones with the zero-padded PID put before the
\* extension, with the flag unset they are the configured ones; the list of
\* PID files holds the paths of all files of the run directory that match
\* <name>*.pid, in ascending order, or in descending order when reverse is set.
C20_ParallelNaming ==
  /\ fcall.op = "_get_fn_pidfile" =>
       fcall.result = IF config.paralel THEN WithPid(config.pid_file, config.pid)
                      ELSE config.pid_file
  /\ fcall.op = "_get_fn_state" =>
       fcall.result = IF config.paralel THEN WithPid(config.state_file, config.pid)
                      ELSE config.state_file
  /\ fcall.op = "_get_fn_runlog" =>
       LET runlog == os_path_join(config.runlog_dir, config.tsfsf \o <<".">> \o RunlogExt)
       IN  fcall.result = IF config.paralel THEN WithPid(runlog, config.pid) ELSE runlog
  /\ fcall.op = "_pidfiles_list" =>
       /\ {fcall.result[i] : i \in 1..Len(fcall.result)}
            = { os_path_join(RunDir, f) :
                  f \in { g \in DOMAIN rundir :
                            StartsWith(g, Name) /\ EndsWith(g, <<".">> \o PidExt) } }
       /\ \A i, j \in 1..Len(fcall.result) :
            i < j => IF fcall.reverse THEN StringLt(fcall.result[j], fcall.result[i])
                     ELSE StringLt(fcall.result[i], fcall.result[j])

\* ------------------------------------------- properties of the statistics
\* The value of the counter at path p among the counters c (0: none).
CounterAt(c, p) == IF p \in DOMAIN c THEN c[p] ELSE 0

\* What get_statistics returned for the counter at path p.
DerivedAt(result, p) == IF Len(p) = 1 THEN result[p[1]] ELSE result[p[1]][p[2]]

\* C21: a get_statistics() call that returns reports, for every counter of
\* the component, those of its sub-trees included, cnt = the current value
\* and inc = the current value minus the value the counter had when
\* get_statistics last returned (0 if it never did); and statistics_prev
\* holds, by value, the counters as they were when get_statistics last
\* returned, whatever the component has counted since.
C21_StatisticsDerivation ==
  LET b == Counters(stats.statistics_cur, stats.objs)
  IN  /\ (scall.op = "get_statistics" /\ scall.exc = "none") =>
            \A p \in DOMAIN b :
              /\ DerivedAt(scall.result, p).cnt = b[p]
              /\ DerivedAt(scall.result, p).inc = b[p] - CounterAt(scall.before, p)
      /\ Counters(stats.statistics_prev, stats.objs) = seen


\* ------------------------------------------ properties of the PID files
\* C22: after write_pid(p, x) with an integer x and p in a directory there
\* is, read_pid(p) returns x; write_pid with a PID that is not an integer
\* raises an exception; write_pid to a path in a directory that does not
\* exist raises FileNotFoundError (for an integer PID) and there is no file
\* of that path.
C22_PidRoundTrip ==
  dcall.op = "write_pid" =>
    /\ (dcall.pid.type = "int" /\ os_path_dirname(dcall.pid_file) \in os.dirs) =>
          /\ dcall.exc = "none"
          /\ read_pid(os, dcall.pid_file) = [exc |-> "none", val |-> dcall.pid.val]
    /\ dcall.pid.type # "int" => dcall.exc # "none"
    /\ os_path_dirname(dcall.pid_file) \notin os.dirs =>
          /\ dcall.exc # "none"
          /\ dcall.pid.type = "int" => dcall.exc = "FileNotFoundError"
          /\ dcall.pid_file \notin DOMAIN os.files

\* A PID of six digits has been written over a file that held something
\* else.
C22_Witness ==
  /\ dcall.op = "write_pid"
  /\ dcall.exc = "none"
  /\ dcall.pid.val = 123456
  /\ os.files[dcall.pid_file] = <<"1", "2", "3", "4", "5", "6", "\n">>

C24_RegistryInvariant ==
  /\ \A event \in DOMAIN callbacks : Len(callbacks[event]) >= 1
  /\ pc # "_init_callbacks" =>
        {EVENT_SIGNAL_HUP, EVENT_SIGNAL_USR1, EVENT_SIGNAL_USR2, EVENT_LOG_STATISTICS}
          \subseteq DOMAIN callbacks

\* A component has registered a callback for an event of its own, and a
\* handler has registered another while the loop ran.
C24_Witness ==
  /\ "default" \in DOMAIN callbacks
  /\ DynRegs # {}
  /\ Len(reglog) = 6
  /\ pc = "loop_while"

\* ------------------------------------------ properties of the idle loop
\* The whole seconds that period ticks round up to.
RoundedUp(period) ==
  CHOOSE k \in 0..(MaxTime + MaxDelay + 1) :
    k * TicksPerSecond >= period /\ (k - 1) * TicksPerSecond < period

\* C25: when the loop, having got the placeholder from next(), computes the
\* time to wait, 0 if the FIFO is non-empty, else the due time of the heap
\* root minus now, it sleeps (sets the alarm and pauses) for that time
\* rounded up to whole seconds if the time is positive, and does not sleep
\* but goes back to ask the queue if the time is zero or negative; the sleep
\* ends when the alarm time has come or a signal handler has run.
C25_IdleSleep ==
  [][ /\ (pc = "loop_wait" /\ pc' # "loop_wait" /\ siglog' = siglog) =>
           LET wait_for == IF Len(queue.events) > 0 THEN 0
                           ELSE queue.events_at[1].tstamp - now
           IN  IF wait_for > 0
               THEN /\ pc' = "pause"
                    /\ alarm' = now + RoundedUp(wait_for) * TicksPerSecond
               ELSE /\ pc' = "loop_while"
                    /\ alarm' = alarm
      /\ (pc = "pause" /\ pc' # "pause" /\ siglog' = siglog) =>
           (pc' = "loop_while" /\ now >= alarm) ]_vars

\* The loop sleeps a whole second for an entry due in half a second.
C25_Witness ==
  /\ pc = "pause"
  /\ now = 0
  /\ queue.events_at[1].tstamp = 1
  /\ alarm = TicksPerSecond

\* ------------------------------------------ properties of the interrupt
\* C26: when the loop has been stopped by an interrupt (SIGINT delivered to
\* the running engine), self.flag_done is True.
C26_InterruptSetsDone ==
  (pc = "finished" /\ raised = "KeyboardInterrupt") => flag_done

\* ---------------------------------- properties of the periodic statistics
\* The for loop is about to call cbk_event_log_statistics.
AtLogStatistics ==
  /\ pc = "loop_for"
  /\ cur.idx < Len(callbacks[cur.event])
  /\ NextHandler = Callback(0, "cbk_event_log_statistics")

\* C27: every call of cbk_event_log_statistics made by a dispatch (a step at
\* that point other than the clock's, a signal's or an interrupt's) pushes
\* exactly one entry on the timed heap, a log_statistics event due at now +
\* stats_interval, and returns (FLAG_CONTINUE, args) with the args it was
\* given; and the loop never ends on QueueEmptyException once a
\* log_statistics event has been scheduled.
C27_StatisticsPerpetual ==
  /\ [][ (AtLogStatistics /\ now' = now /\ siglog' = siglog
                           /\ raised' # "KeyboardInterrupt") =>
            /\ pc' # "error"
            /\ queue'.events = queue.events
            /\ Len(queue'.events_at) = Len(queue.events_at) + 1
            /\ \E i \in 1..Len(queue'.events_at) :
                 /\ queue'.events_at[i].id = nextid + 1
                 /\ queue'.events_at[i].event = EVENT_LOG_STATISTICS
                 /\ queue'.events_at[i].tstamp = now + StatsInterval
            /\ calls' = Append(calls, [handler |-> NextHandler, args |-> cur.args,
                                       flag |-> FLAG_CONTINUE, ret |-> cur.args]) ]_vars
  /\ []( (flag_done /\ last.exc = "QueueEmptyException") =>
            \A i \in 1..Len(log) : log[i].event # EVENT_LOG_STATISTICS )

\* ------------------------------------------- termination of the loop
\* The loop is entered with every scheduled event having a handler chain.
AllRegistered ==
  /\ pc = "loop_enter"
  /\ \A i \in 1..Len(log) : log[i].event \in DOMAIN callbacks

\* The loop has ended with the done flag set and the queue empty, every
\* scheduled entry having been dequeued for dispatch exactly once.
AllDispatched ==
  /\ pc = "finished"
  /\ flag_done
  /\ count(queue) = 0
  /\ Len(returned) = Len(log)
  /\ \A i \in 1..Len(log) : \E j \in 1..Len(returned) : returned[j] = i

\* C28: when finitely many events are scheduled, each with a registered
\* handler chain, no handler schedules or raises and no signal arrives, the
\* loop eventually has dispatched every scheduled event exactly once and has
\* ended with the done flag set and the queue empty.
C28_FiniteWorkTerminates == AllRegistered ~> AllDispatched

\* ------------------------------------------- entries taken off the queue
\* C29: every entry that queue.next() removes from the queue in the loop is
\* dispatched to its handler chain or raises the ZenDaemonException for an
\* event without callback, whatever its event name, the empty string included.
C29_NoSilentDrop ==
  [][ (pc = "loop_next" /\ count(queue') < count(queue)) =>
         \/ /\ pc' = "loop_for"
            /\ cur' = Dispatch(last'.event, last'.args)
         \/ /\ pc' = "error"
            /\ raised' = "ZenDaemonException"
            /\ excarg' = last'.event ]_vars

\* --------------------------------------- timed events and immediate work
\* An entry that a handler scheduled with queue.schedule('default'), as
\* DemoDaemonComponent.cbk_event_default does on every dispatch, is pending
\* in the FIFO.
Rescheduled(self) ==
  \E i \in 1..Len(self.events) :
    /\ self.events[i].event = "default"
    /\ self.events[i].id > MaxInitial

C31_NoLostSignal == (pc = "pause" /\ count(queue) > 0) => alarm # 0

\* ------------------------------------------------------------- done()
\* done() was called by a handler during a dispatch.
DoneInDispatch == \E i \in 1..Len(dlog) : dlog[i].pc = "loop_for"

\* C32: once a handler has called done() during a dispatch, next() returns
\* no further entry and the pending entries stay in the queue; the handlers
\* that remain in the chain are still called, unless one returns a flag other
\* than FLAG_CONTINUE, and then the loop ends.  A done() call made before the
\* loop starts has no effect: the loop sets flag_done to False on entry.
C32_CooperativeStop ==
  /\ [](DoneInDispatch =>
          /\ flag_done
          /\ \A i \in 1..Len(dlog) :
               dlog[i].pc = "loop_for" => Len(returned) = dlog[i].nret
          /\ pc \in {"loop_for", "loop_while", "finished"})
  /\ [][ (DoneInDispatch /\ now' = now) =>
            /\ returned' = returned
            /\ last' = last
            /\ FifoIds(queue) \subseteq FifoIds(queue')
            /\ TimedIds(queue) \subseteq TimedIds(queue')
            /\ (pc = "loop_for" =>
                 IF cur.idx < Len(callbacks[cur.event])
                 THEN /\ Len(calls') = Len(calls) + 1
                      /\ calls'[Len(calls')].handler = NextHandler
                      /\ pc' = IF calls'[Len(calls')].flag = FLAG_CONTINUE
                               THEN "loop_for" ELSE "loop_while"
                 ELSE pc' = "loop_while")
            /\ (pc = "loop_while" => pc' = "finished") ]_vars
  /\ [][ (pc = "loop_enter" /\ pc' # pc) =>
            (pc' = "loop_while" /\ ~flag_done') ]_vars

\* C32's case: the component's handler, first in the chain of signal_usr1,
\* has called done(); the built-in callback after it was still called, and
\* the loop has ended with flag_done set and an entry left in the queue.
C32_Witness ==
  /\ pc = "finished"
  /\ flag_done
  /\ raised = "none"
  /\ DoneInDispatch
  /\ Len(calls) = 2
  /\ calls[1].handler.comp # 0
  /\ calls[2].handler.comp = 0
  /\ Len(returned) = 1
  /\ count(queue) > 0

\* ---------------------------------------- the component maps of snapshots
\* C33: the 'components' dict that _get_state or _get_statistics has
\* returned holds one entry for every component of self.components, the
\* components being of any classes.
C33_OneEntryPerComponent ==
  (snap.op \in {"_get_state", "_get_statistics"} /\ snap.exc = "none") =>
    Cardinality(DOMAIN snap.components) = Len(components)

====
